---- MODULE Spec2Model ----
(***************************************************************************)
(* State-machine model of the OSRS Grand Exchange tracker (getrack):       *)
(* the trading calculations library (src/lib/calculations), the            *)
(* opportunity evaluator and portfolio builder of PriceService, and the    *)
(* HTTP routes that call them.                                             *)
(*                                                                         *)
(* Number representation.  JavaScript numbers that are always integral in  *)
(* the program (prices, quantities, GP amounts, volumes) are TLA+          *)
(* integers.  Results of a JavaScript division (roi, marginPercent,        *)
(* avgPrice, budgetUtilization) are exact fractions [num, den] in lowest   *)
(* terms with den > 0; the three non-finite results of x/0 are kept apart: *)
(* NaN = 0/0, Infinity = 1/0, -Infinity = -1/0.  A volatility (a square    *)
(* root) is kept as the fraction under the root, see calculateVolatility.  *)
(* A nullable database column holds Null when it is NULL.                  *)
(***************************************************************************)
EXTENDS Integers, Sequences, FiniteSets, TLC

VARIABLES
  call,                  \* last direct call of a calculations-library function
  db,                    \* item rows with their price rows and 24h volume
  pc,                    \* position of the service call in progress
  budget,                \* budget argument of the service call
  filters,               \* filters argument of the service call
  candidates,            \* getFlipOpportunities: `opportunities` before the post-filter
  opportunities,         \* getFlipOpportunities: the returned (filtered, sorted) list
  idx,                   \* getPortfolioSuggestion: index of the next loop iteration
  remainingBudget,       \* getPortfolioSuggestion: remainingBudget
  selectedOpportunities, \* getPortfolioSuggestion: selectedOpportunities
  result,                \* value the service call returned
  request,               \* HTTP request being served
  reply,                 \* HTTP reply sent for it
  phase,                 \* the server process: starting, initialSync, listening, exited
  itemRows,              \* ids of the rows of the Item table
  priceRows,             \* rows of the Price table
  historyRows,           \* per item id, the createMany batches in the PriceHistory table
  historyDone,           \* process.env.HISTORICAL_SYNC_DONE === 'true'
  isRunning,             \* PriceSyncJob.isRunning
  apiMapping,            \* item ids OSRSApiService.fetchItemMapping returns at present
  handler,               \* per sync handler, its position and its local variables
  invocations,           \* scheduled ticks and sync requests handled so far
  component,             \* a React component that calls useApi: the hook's state and its effects
  volumeApi              \* whether OSRSApiService.fetch24hVolumes answers ("up") or throws ("down")

\* the tables and jobs of the data synchronisation
syncVars == <<phase, itemRows, priceRows, historyRows, historyDone, isRunning,
              apiMapping, handler, invocations>>

vars == <<call, db, pc, budget, filters, candidates, opportunities, idx,
          remainingBudget, selectedOpportunities, result, request, reply,
          phase, itemRows, priceRows, historyRows, historyDone, isRunning,
          apiMapping, handler, invocations, component, volumeApi>>

\* everything but the client component
serverVars == <<call, db, pc, budget, filters, candidates, opportunities, idx,
                remainingBudget, selectedOpportunities, result, request, reply,
                phase, itemRows, priceRows, historyRows, historyDone, isRunning,
                apiMapping, handler, invocations, volumeApi>>

svcVars == <<db, pc, budget, filters, candidates, opportunities, idx,
             remainingBudget, selectedOpportunities, result, request, reply,
             phase, itemRows, priceRows, historyRows, historyDone, isRunning,
             apiMapping, handler, invocations, component, volumeApi>>

----------------------------------------------------------------------------
(* Arithmetic helpers                                                      *)

Null == -1

None == [kind |-> "none"]

Min(a, b) == IF a <= b THEN a ELSE b

Max(a, b) == IF a >= b THEN a ELSE b

Abs(a) == IF a < 0 THEN -a ELSE a

Sign(a) == IF a > 0 THEN 1 ELSE IF a < 0 THEN -1 ELSE 0

RECURSIVE GCD(_, _)
GCD(a, b) == IF b = 0 THEN a ELSE GCD(b, a % b)

\* JavaScript n / d on integers: an exact fraction, or NaN / +-Infinity.
Div(n, d) ==
  IF d = 0 THEN [num |-> Sign(n), den |-> 0]
  ELSE LET g == GCD(Abs(n), Abs(d))
           s == Sign(d)
       IN  [num |-> s * (n \div g), den |-> s * (d \div g)]

Whole(n) == [num |-> n, den |-> 1]

IsNaN(x) == x.den = 0 /\ x.num = 0

IsFinite(x) == x.den > 0

\* fraction * integer
Times(x, k) == IF x.den = 0 THEN [num |-> Sign(x.num * k), den |-> 0]
               ELSE Div(x.num * k, x.den)

\* JavaScript x < k, x > k, x >= k for a fraction x and an integer k
\* (every comparison with NaN is false).
Less(x, k) == IF x.den = 0 THEN x.num < 0 ELSE x.num < k * x.den

Greater(x, k) == IF x.den = 0 THEN x.num > 0 ELSE x.num > k * x.den

\* JavaScript a > b for two finite fractions
GreaterF(a, b) == a.num * b.den > b.num * a.den

\* Math.floor of a finite fraction
MathFloor(x) == x.num \div x.den

\* JavaScript truthiness of a nullable number: null, undefined and 0 are falsy.
Truthy(x) == x # Null /\ x # 0

\* JavaScript `x || 0`
OrZero(x) == IF Truthy(x) THEN x ELSE 0

RECURSIVE SumSeq(_)
SumSeq(s) == IF s = <<>> THEN 0 ELSE Head(s) + SumSeq(Tail(s))

RECURSIVE SumSq(_)
SumSq(s) == IF s = <<>> THEN 0 ELSE Head(s) * Head(s) + SumSq(Tail(s))

\* Array.prototype.slice(0, n); Array.prototype.filter is SelectSeq
Take(s, n) == SubSeq(s, 1, Min(n, Len(s)))

----------------------------------------------------------------------------
(* Trading calculations library                                            *)

\* GE_TAX_RATE = 0.02 is applied as Math.floor(sellPrice * 0.02).  The double
\* nearest to 0.02 lies above 1/50, so for integer sell prices in the model's
\* range the product never rounds below the exact quotient and the floor is
\* sellPrice \div GE_TAX_DIVISOR.
GE_TAX_DIVISOR == 50

MAX_GE_TAX == 5000000

MIN_VOLUME_HOURLY == 50

MIN_VOLUME_DAILY == 1200

VOLATILITY_LOW == 5

VOLATILITY_MEDIUM == 15

VOLATILITY_HIGH == 20

VOLATILITY_EXTREME == 30

MAX_MARGIN_PERCENT == 1000

\* Number.MAX_SAFE_INTEGER is 2^53 - 1; TLC integers are 32 bits wide, so the
\* model uses the largest of them.  Every other quantity of the model stays
\* below it, as every real quantity stays below 2^53 - 1.
MAX_SAFE_INTEGER == 2147483647

calculateMargin(high, low) == high - low

calculateMarginPercent(margin, low) ==
  IF low = 0 THEN Whole(0) ELSE Times(Div(margin, low), 100)

calculateROI(profit, cost) ==
  IF cost = 0 THEN Whole(0) ELSE Times(Div(profit, cost), 100)

\* mutant: the minimum of 1 GP is dropped
calculateGETax_NoMinimum(sellPrice) ==
  Min(sellPrice \div GE_TAX_DIVISOR, MAX_GE_TAX)

calculateGETax(sellPrice) ==
  LET tax == sellPrice \div GE_TAX_DIVISOR
  IN  Min(Max(tax, 1), MAX_GE_TAX)

\* mutant: the tax is computed once on the whole sale instead of per item
calculateProfitAfterTax_TaxOnTotal(margin, high, quantity) ==
  margin * quantity - calculateGETax(high * quantity)

calculateProfitAfterTax(margin, high, quantity) ==
  LET taxPerItem == calculateGETax(high)
      profitPerItem == margin - taxPerItem
  IN  profitPerItem * quantity

\* The coefficient of variation stddev / mean * 100 of n integer prices with
\* sum S and sum of squares Q is 100 * sqrt((n*Q - S*S) / (S*S)).  The model
\* keeps the fraction under the root, [sqn |-> n*Q - S*S, sqd |-> S*S], and
\* compares it with a threshold T by squaring (VolGreater, VolLess).
\* Fewer than two prices, or a mean of 0, give volatility 0.
calculateVolatility(prices) ==
  IF Len(prices) < 2 THEN [sqn |-> 0, sqd |-> 1]
  ELSE LET n == Len(prices)
           S == SumSeq(prices)
       IN  IF S > 0 THEN [sqn |-> n * SumSq(prices) - S * S, sqd |-> S * S]
           ELSE [sqn |-> 0, sqd |-> 1]

\* The volatility that is exactly pct percent.
VolOf(pct) == [sqn |-> pct * pct, sqd |-> 10000]

\* volatility > T and volatility < T for a threshold T in percent
VolGreater(v, T) == T < 0 \/ v.sqn * 10000 > T * T * v.sqd

VolLess(v, T) == T > 0 /\ v.sqn * 10000 < T * T * v.sqd

\* mutant: the baseline averages include the index-0 element
detectPriceAnomalies_BaselineWithCurrent(currentHigh, currentLow, recentHighs, recentLows) ==
  IF Len(recentHighs) < 3 \/ Len(recentLows) < 3
  THEN [hasSpike |-> FALSE, hasCrash |-> FALSE, isStable |-> TRUE]
  ELSE LET sumHigh == SumSeq(recentHighs)
           sumLow == SumSeq(recentLows)
           hasSpike == 2 * Len(recentHighs) * currentHigh > 3 * sumHigh
           hasCrash == 2 * Len(recentLows) * currentLow < sumLow
       IN  [hasSpike |-> hasSpike, hasCrash |-> hasCrash,
            isStable |-> ~hasSpike /\ ~hasCrash]

\* PRICE_SPIKE_THRESHOLDS: HIGH_MULTIPLIER 1.5 = 3/2, LOW_MULTIPLIER 0.5 = 1/2;
\* currentHigh > avg * 1.5 with avg = sum / m  is  2 * m * currentHigh > 3 * sum.
detectPriceAnomalies(currentHigh, currentLow, recentHighs, recentLows) ==
  IF Len(recentHighs) < 3 \/ Len(recentLows) < 3
  THEN [hasSpike |-> FALSE, hasCrash |-> FALSE, isStable |-> TRUE]
  ELSE LET sumHigh == SumSeq(Tail(recentHighs))
           sumLow == SumSeq(Tail(recentLows))
           hasSpike == 2 * (Len(recentHighs) - 1) * currentHigh > 3 * sumHigh
           hasCrash == 2 * (Len(recentLows) - 1) * currentLow < sumLow
       IN  [hasSpike |-> hasSpike, hasCrash |-> hasCrash,
            isStable |-> ~hasSpike /\ ~hasCrash]

\* mutant: the budget does not limit the quantity
calculateOptimalQuantity_IgnoresBudget(budgetArg, avgPrice, buyLimit, volume, maxBudgetPercent) ==
  LET effectiveBuyLimit == IF buyLimit = 0 THEN MAX_SAFE_INTEGER ELSE buyLimit
      volumeBasedLimit == IF volume > 0 THEN Max(1, volume \div 10)
                          ELSE MAX_SAFE_INTEGER
  IN  Min(effectiveBuyLimit, volumeBasedLimit)

\* mutant: the 0 sentinel of buyLimit is used as a literal limit
calculateOptimalQuantity_LiteralLimit(budgetArg, avgPrice, buyLimit, volume, maxBudgetPercent) ==
  LET maxQuantityByBudget ==
        MathFloor(Div(budgetArg * maxBudgetPercent.num * avgPrice.den,
                      maxBudgetPercent.den * avgPrice.num))
      maxQuantityByPrice == MathFloor(Div(budgetArg * avgPrice.den, avgPrice.num))
      volumeBasedLimit == IF volume > 0 THEN Max(1, volume \div 10)
                          ELSE MAX_SAFE_INTEGER
  IN  Min(Min(buyLimit, maxQuantityByBudget),
          Min(maxQuantityByPrice, volumeBasedLimit))

\* avgPrice and maxBudgetPercent are fractions; volume * 0.1 is floored, and
\* as for the tax rate the double nearest to 0.1 lies above 1/10.
calculateOptimalQuantity(budgetArg, avgPrice, buyLimit, volume, maxBudgetPercent) ==
  LET maxQuantityByBudget ==
        MathFloor(Div(budgetArg * maxBudgetPercent.num * avgPrice.den,
                      maxBudgetPercent.den * avgPrice.num))
      maxQuantityByPrice == MathFloor(Div(budgetArg * avgPrice.den, avgPrice.num))
      effectiveBuyLimit == IF buyLimit = 0 THEN MAX_SAFE_INTEGER ELSE buyLimit
      volumeBasedLimit == IF volume > 0 THEN Max(1, volume \div 10)
                          ELSE MAX_SAFE_INTEGER
  IN  Min(Min(effectiveBuyLimit, maxQuantityByBudget),
          Min(maxQuantityByPrice, volumeBasedLimit))

hassufficientVolume(volume, itemPrice) ==
  LET threshold == IF itemPrice > 1000000 THEN MIN_VOLUME_HOURLY
                   ELSE MIN_VOLUME_DAILY
  IN  volume >= threshold

getRiskLevel(volatility) ==
  IF VolLess(volatility, VOLATILITY_LOW) THEN "Low"
  ELSE IF VolLess(volatility, VOLATILITY_MEDIUM) THEN "Medium"
  ELSE IF VolLess(volatility, VOLATILITY_HIGH) THEN "High"
  ELSE "Extreme"

\* mutant: the minimum ROI is not required
KeepsOpportunity_NoRoiFloor(opp, minProfit, minROI, minVolume, maxVolatility) ==
  /\ ~(opp.profitAfterTax < minProfit)
  /\ ~Greater(opp.marginPercent, MAX_MARGIN_PERCENT)
  /\ hassufficientVolume(opp.volume, opp.currentHigh)
  /\ ~(minVolume > 0 /\ opp.volume < minVolume)
  /\ ~VolGreater(opp.volatility, maxVolatility)

\* mutant: the margin ceiling is exclusive (>= instead of >)
KeepsOpportunity_MarginExclusive(opp, minProfit, minROI, minVolume, maxVolatility) ==
  /\ ~(opp.profitAfterTax < minProfit \/ Less(opp.roi, minROI))
  /\ ~(opp.marginPercent.num >= MAX_MARGIN_PERCENT * opp.marginPercent.den)
  /\ hassufficientVolume(opp.volume, opp.currentHigh)
  /\ ~(minVolume > 0 /\ opp.volume < minVolume)
  /\ ~VolGreater(opp.volatility, maxVolatility)

\* the predicate of filterProfitableOpportunities' filter callback
KeepsOpportunity(opp, minProfit, minROI, minVolume, maxVolatility) ==
  /\ ~(opp.profitAfterTax < minProfit \/ Less(opp.roi, minROI))
  /\ ~Greater(opp.marginPercent, MAX_MARGIN_PERCENT)
  /\ hassufficientVolume(opp.volume, opp.currentHigh)
  /\ ~(minVolume > 0 /\ opp.volume < minVolume)
  /\ ~VolGreater(opp.volatility, maxVolatility)

filterProfitableOpportunities(opps, minProfit, minROI, minVolume, maxVolatility) ==
  LET Keep(opp) == KeepsOpportunity(opp, minProfit, minROI, minVolume, maxVolatility)
  IN  SelectSeq(opps, Keep)

----------------------------------------------------------------------------
(* Direct calls of the calculations library (as its unit tests make them)  *)

\* ids of the items of the game: 1 is in the item mapping from the start, 2 is
\* added to it by a game update, 3 is traded but never in the mapping
AllIds == {1, 2, 3}

\* locals of a sync handler that is not running
Resting ==
  [pc |-> "idle", entries |-> <<>>, pos |-> 0, mappingById |-> {},
   mappingRefetched |-> FALSE, targetIds |-> <<>>]

Handlers == {"initial", "cron", "hourly", "manual"}

\* null as the value of the hook's data and error (both hold text otherwise)
NoValue == "null"

\* no component that calls useApi is mounted
Unmounted ==
  [mounted |-> FALSE, url |-> "", data |-> NoValue, loading |-> TRUE,
   error |-> NoValue, effects |-> <<>>]

\* the server is up and no sync job is running; the tables as the sync jobs
\* write them are followed in SpecSync only
SyncIdle ==
  /\ phase = "listening"
  /\ itemRows = {}
  /\ priceRows = {}
  /\ historyRows = [id \in AllIds |-> 0]
  /\ historyDone = FALSE
  /\ isRunning = FALSE
  /\ apiMapping = {}
  /\ handler = [p \in Handlers |-> Resting]
  /\ invocations = 0

\* no service call, no HTTP request
ServiceIdle ==
  /\ SyncIdle
  /\ db = <<>>
  /\ pc = "idle"
  /\ budget = 0
  /\ filters = None
  /\ candidates = <<>>
  /\ opportunities = <<>>
  /\ idx = 0
  /\ remainingBudget = 0
  /\ selectedOpportunities = <<>>
  /\ result = None
  /\ request = None
  /\ reply = None
  /\ component = Unmounted
  /\ volumeApi = "up"

MaxSmallPrice == 120

CapWindow == 60

TaxCapPrice == MAX_GE_TAX * GE_TAX_DIVISOR

SellPrices ==
  (0..MaxSmallPrice) \cup ((TaxCapPrice - CapWindow)..(TaxCapPrice + CapWindow))

\* a call about to be made with the given arguments
Pending(fn, args) == [fn |-> fn, args |-> args, returned |-> FALSE, result |-> None]

Returns(value) == call' = [call EXCEPT !.returned = TRUE, !.result = value]

CallTax ==
  /\ call.fn = "calculateGETax" /\ ~call.returned
  /\ Returns(calculateGETax(call.args.sellPrice))
  /\ UNCHANGED svcVars

InitTax ==
  /\ \E sellPrice \in SellPrices :
       call = Pending("calculateGETax", [sellPrice |-> sellPrice])
  /\ ServiceIdle

NextTax == CallTax

SpecTax == InitTax /\ [][NextTax]_vars

QtyBudgetSpan == 3

QtyBudgets ==
  ((-QtyBudgetSpan)..QtyBudgetSpan) \cup {-1000, -105, 104, 105, 210, 1000}

QtyAvgPrices == {Whole(1), Div(3, 2), Div(201, 2), Whole(105)}

QtyBuyLimits == {0, 1, 5, 100}

QtyVolumes == {0, 5, 15, 40, 2000}

QtyPercents == {Whole(1), Div(1, 2), Div(1, 10)}

CallQuantity ==
  /\ call.fn = "calculateOptimalQuantity" /\ ~call.returned
  /\ Returns(calculateOptimalQuantity(call.args.budget, call.args.avgPrice,
                                      call.args.buyLimit, call.args.volume,
                                      call.args.maxBudgetPercent))
  /\ UNCHANGED svcVars

InitQty ==
  /\ \E b \in QtyBudgets, avgPrice \in QtyAvgPrices, buyLimit \in QtyBuyLimits,
        volume \in QtyVolumes, maxBudgetPercent \in QtyPercents :
       call = Pending("calculateOptimalQuantity",
                      [budget |-> b, avgPrice |-> avgPrice, buyLimit |-> buyLimit,
                       volume |-> volume, maxBudgetPercent |-> maxBudgetPercent])
  /\ ServiceIdle

NextQty == CallQuantity

SpecQty == InitQty /\ [][NextQty]_vars

\* The opportunity of tests/profitableOpportunities.test.ts and variants of it
\* that differ in the fields the filter reads.
FilterBase ==
  [id |-> 1, currentHigh |-> 100, currentLow |-> 90, avgPrice |-> Whole(95),
   margin |-> 10, marginPercent |-> Whole(10), roi |-> Whole(10), quantity |-> 1,
   totalCost |-> 90, totalProfit |-> 10, profitAfterTax |-> 2000, buyLimit |-> 100,
   volume |-> 2000, volatility |-> VolOf(5)]

FilterVariants ==
  {FilterBase}
  \cup {[FilterBase EXCEPT !.profitAfterTax = p] : p \in {999, 1000}}
  \cup {[FilterBase EXCEPT !.roi = r] : r \in {Div(49, 10), Whole(5)}}
  \cup {[FilterBase EXCEPT !.marginPercent = Whole(m)] :
          m \in {MAX_MARGIN_PERCENT, MAX_MARGIN_PERCENT + 1, 1500}}
  \cup {[FilterBase EXCEPT !.marginPercent = Whole(1500),
                           !.profitAfterTax = 1000000, !.roi = Whole(900)]}
  \cup {[FilterBase EXCEPT !.currentHigh = hv[1], !.volume = hv[2]] :
          hv \in {<<100, 1199>>, <<100, 1200>>, <<100, 1600>>, <<1000000, 50>>,
                  <<1000001, 50>>, <<1000001, 49>>}}
  \cup {[FilterBase EXCEPT !.volatility = VolOf(v)] : v \in {10, 11, 30, 31}}

MaxFilterLen == 2

\* arrays of at most MaxFilterLen variants, ids 1, 2, ... by position
FilterInputs ==
  UNION {[1..n -> FilterVariants] : n \in 0..MaxFilterLen}

WithIds(opps) == [i \in 1..Len(opps) |-> [opps[i] EXCEPT !.id = i]]

FilterMinVolumes == {0, 1500}

FilterMaxVolatilities == {10, VOLATILITY_EXTREME, 40}

\* getFlipOpportunities passes minProfit 1000 and minROI 5, the defaults
CallFilter ==
  /\ call.fn = "filterProfitableOpportunities" /\ ~call.returned
  /\ Returns(filterProfitableOpportunities(call.args.opportunities,
                                           call.args.minProfit, call.args.minROI,
                                           call.args.minVolume,
                                           call.args.maxVolatility))
  /\ UNCHANGED svcVars

InitFilter ==
  /\ \E opps \in FilterInputs, minVolume \in FilterMinVolumes,
        maxVolatility \in FilterMaxVolatilities :
       call = Pending("filterProfitableOpportunities",
                      [opportunities |-> WithIds(opps), minProfit |-> 1000,
                       minROI |-> 5, minVolume |-> minVolume,
                       maxVolatility |-> maxVolatility])
  /\ ServiceIdle

NextFilter == CallFilter

SpecFilter == InitFilter /\ [][NextFilter]_vars

MaxRecentLen == 3

AnomalyPrices == {60, 100}

\* the recent price lists, from empty up to MaxRecentLen entries
RecentLists ==
  UNION {[1..n -> AnomalyPrices] : n \in 0..MaxRecentLen}

AnomalyCurrentHighs == {100, 150, 160}

AnomalyCurrentLows == {30, 40, 50}

CallAnomalies ==
  /\ call.fn = "detectPriceAnomalies" /\ ~call.returned
  /\ Returns(detectPriceAnomalies(call.args.currentHigh, call.args.currentLow,
                                  call.args.recentHighs, call.args.recentLows))
  /\ UNCHANGED svcVars

InitAnomaly ==
  /\ \E currentHigh \in AnomalyCurrentHighs, currentLow \in AnomalyCurrentLows,
        recentHighs \in RecentLists, recentLows \in RecentLists :
          call = Pending("detectPriceAnomalies",
                         [currentHigh |-> currentHigh, currentLow |-> currentLow,
                          recentHighs |-> recentHighs, recentLows |-> recentLows])
  /\ ServiceIdle

NextAnomaly == CallAnomalies

SpecAnomaly == InitAnomaly /\ [][NextAnomaly]_vars

----------------------------------------------------------------------------
(* Composite ranking                                                       *)

\* the sort key of an opportunity as a fraction
KeyOf(opp, field) ==
  IF field \in {"roi", "compositeScore"} THEN opp[field] ELSE Whole(opp[field])

\* Array.prototype.sort((a, b) => b[field] - a[field]).  The sort is stable, so
\* elements with equal keys keep their order: x is inserted in front of the
\* first element whose key is smaller than its own.
SortDescending(s, field) ==
  LET InsertAt(t, x) ==
        LET smaller == {j \in 1..Len(t) : GreaterF(KeyOf(x, field), KeyOf(t[j], field))}
            pos == IF smaller = {} THEN Len(t) + 1
                   ELSE CHOOSE j \in smaller : \A k \in smaller : j <= k
        IN  SubSeq(t, 1, pos - 1) \o <<x>> \o SubSeq(t, pos, Len(t))
      Sorted[i \in 0..Len(s)] ==
        IF i = 0 THEN <<>> ELSE InsertAt(Sorted[i - 1], s[i])
  IN  Sorted[Len(s)]

\* Array.prototype.findIndex(o => o.id === id), 0-based
FindIndexById(s, id) ==
  IF \E j \in 1..Len(s) : s[j].id = id
  THEN (CHOOSE j \in 1..Len(s) :
          s[j].id = id /\ \A k \in 1..(j - 1) : s[k].id # id) - 1
  ELSE -1

\* mutant: the weights of profit and volume are exchanged
calculateOpportunityScores_VolumeFirst(opps) ==
  IF Len(opps) = 0 THEN opps
  ELSE LET n == Len(opps)
           sortedByProfit == SortDescending(opps, "profitAfterTax")
           sortedByVolume == SortDescending(opps, "volume")
           sortedByROI == SortDescending(opps, "roi")
           Score(opp) ==
             LET profitRank == FindIndexById(sortedByProfit, opp.id)
                 volumeRank == FindIndexById(sortedByVolume, opp.id)
                 roiRank == FindIndexById(sortedByROI, opp.id)
             IN  Div(3 * (n - profitRank) + 5 * (n - volumeRank) + 2 * (n - roiRank),
                     10 * n)
       IN  [i \in 1..n |->
              [k \in DOMAIN opps[i] \cup {"compositeScore"} |->
                 IF k = "compositeScore" THEN Score(opps[i]) ELSE opps[i][k]]]

\* compositeScore = profitScore * 0.5 + volumeScore * 0.3 + roiScore * 0.2 with
\* each score 1 - rank / n, kept as the exact fraction
\* (5 (n - profitRank) + 3 (n - volumeRank) + 2 (n - roiRank)) / (10 n).
calculateOpportunityScores(opps) ==
  IF Len(opps) = 0 THEN opps
  ELSE LET n == Len(opps)
           sortedByProfit == SortDescending(opps, "profitAfterTax")
           sortedByVolume == SortDescending(opps, "volume")
           sortedByROI == SortDescending(opps, "roi")
           Score(opp) ==
             LET profitRank == FindIndexById(sortedByProfit, opp.id)
                 volumeRank == FindIndexById(sortedByVolume, opp.id)
                 roiRank == FindIndexById(sortedByROI, opp.id)
             IN  Div(5 * (n - profitRank) + 3 * (n - volumeRank) + 2 * (n - roiRank),
                     10 * n)
       IN  [i \in 1..n |->
              [k \in DOMAIN opps[i] \cup {"compositeScore"} |->
                 IF k = "compositeScore" THEN Score(opps[i]) ELSE opps[i][k]]]

\* mutant: the scored list is returned without sorting it
sortOpportunitiesByScore_Unsorted(opps) ==
  calculateOpportunityScores(opps)

sortOpportunitiesByScore(opps) ==
  LET scoredOpportunities == calculateOpportunityScores(opps)
  IN  SortDescending(scoredOpportunities, "compositeScore")

----------------------------------------------------------------------------
(* Direct calls of the composite ranking                                   *)

\* candidates that differ in the three ranked metrics
ScoreVariants ==
  {[FilterBase EXCEPT !.profitAfterTax = p, !.volume = v, !.roi = Whole(r)] :
     p \in {1000, 2000}, v \in {1500, 3000}, r \in {5, 8}}

MaxScoreLen == 3

\* arrays of at most MaxScoreLen candidates, ids 1, 2, ... by position
ScoreInputs ==
  UNION {[1..n -> ScoreVariants] : n \in 0..MaxScoreLen}

CallScores ==
  /\ call.fn = "calculateOpportunityScores" /\ ~call.returned
  /\ Returns(calculateOpportunityScores(call.args.opportunities))
  /\ UNCHANGED svcVars

CallSortByScore ==
  /\ call.fn = "sortOpportunitiesByScore" /\ ~call.returned
  /\ Returns(sortOpportunitiesByScore(call.args.opportunities))
  /\ UNCHANGED svcVars

InitScore ==
  /\ \E opps \in ScoreInputs,
        fn \in {"calculateOpportunityScores", "sortOpportunitiesByScore"} :
       call = Pending(fn, [opportunities |-> WithIds(opps)])
  /\ ServiceIdle

NextScore == CallScores \/ CallSortByScore

SpecScore == InitScore /\ [][NextScore]_vars

----------------------------------------------------------------------------
(* Database contents                                                       *)

Price(high, low) == [high |-> high, low |-> low]

Repeat(x, n) == [i \in 1..n |-> x]

NumTemplates == 22

\* Item rows with their price rows (most recent first) and the 24h volume the
\* volume endpoint reports for them.  buyLimit 0 is "no limit".
ItemTemplate(t) ==
  CASE t = 1 -> [buyLimit |-> 100, volume |-> 2000, prices |-> <<Price(110, 100)>>]
    [] t = 2 -> [buyLimit |-> 150, volume |-> 2000, prices |-> <<Price(110, 100)>>]
    [] t = 3 -> [buyLimit |-> 0, volume |-> 2000,
                 prices |-> <<Price(110, 100), Price(110, 100)>>]
    [] t = 4 -> [buyLimit |-> 150, volume |-> 2500,
                 prices |-> <<Price(110, 100), Price(190, 100)>>]
    [] t = 5 -> [buyLimit |-> 200, volume |-> 3000,
                 prices |-> <<Price(220, 200), Price(Null, 200)>>]
    [] t = 6 -> [buyLimit |-> 150, volume |-> 2200,
                 prices |-> <<Price(110, 100)>> \o Repeat(Price(70, 100), 9)
                            \o <<Price(1000, 100)>>]
    [] t = 7 -> [buyLimit |-> 150, volume |-> 2000,
                 prices |-> <<Price(110, 100), Price(230, 100)>>]
    [] t = 8 -> [buyLimit |-> 300, volume |-> 5000, prices |-> <<Price(55, 50)>>]
    [] t = 9 -> [buyLimit |-> 150, volume |-> 2000,
                 prices |-> <<Price(Null, 100), Price(110, 100)>>]
    [] t = 10 -> [buyLimit |-> 8, volume |-> 60,
                  prices |-> <<Price(1100000, 1000000)>>]
    [] t = 11 -> [buyLimit |-> 150, volume |-> 2100,
                  prices |-> <<Price(110, 100), Price(150, 100)>>]
    [] t = 12 -> [buyLimit |-> 150, volume |-> 500, prices |-> <<Price(110, 100)>>]
    [] t = 13 -> [buyLimit |-> 150, volume |-> 2000, prices |-> <<Price(100, 100)>>]
    [] t = 14 -> [buyLimit |-> 150, volume |-> 2000, prices |-> <<Price(160, 10)>>]
    [] t = 15 -> [buyLimit |-> 150, volume |-> 2000,
                  prices |-> <<Price(110, 100), Price(110, 210), Price(110, 210)>>]
    [] t = 16 -> [buyLimit |-> 1000, volume |-> 20000, prices |-> <<Price(104, 100)>>]
    [] t = 17 -> [buyLimit |-> 150, volume |-> 2000,
                  prices |-> <<Price(Null, Null), Price(110, 100)>>]
    [] t = 18 -> [buyLimit |-> 150, volume |-> 2000, prices |-> <<Price(10, -20)>>]
    [] t = 19 -> [buyLimit |-> 150, volume |-> 2300,
                  prices |-> <<Price(110, 100), Price(170, 100)>>]
    [] t = 20 -> [buyLimit |-> 150, volume |-> 2000,
                  prices |-> <<Price(110, Null), Price(110, 100)>>]
    [] t = 21 -> [buyLimit |-> 150, volume |-> 0, prices |-> <<Price(110, 100)>>]
    [] OTHER -> [buyLimit |-> 150, volume |-> 2000, prices |-> <<>>]

ItemRow(i) ==
  LET t == ItemTemplate(((i - 1) % NumTemplates) + 1)
  IN  [id |-> i, buyLimit |-> t.buyLimit, volume |-> t.volume, prices |-> t.prices]

MaxDbItems == 22

Databases == {[i \in 1..n |-> ItemRow(i)] : n \in 0..MaxDbItems}

\* mutant: a failed fetch is not caught and the volumes are used all the same
fetchVolumeData_NeverFails(rows) ==
  LET reported == {rows[i] : i \in 1..Len(rows)}
  IN  [id \in {r.id : r \in {x \in reported : x.volume > 0}} |->
         (CHOOSE r \in reported : r.id = id).volume]

\* fetchVolumeData: the map item id -> 24h volume, from the row's `volume` (the
\* total the volume endpoint reports); ids with a total of 0 are left out, and
\* the map is empty when the fetch throws
fetchVolumeData(rows) ==
  LET reported == {rows[i] : i \in 1..Len(rows)}
  IN  IF volumeApi = "down" THEN [id \in {} |-> 0]
      ELSE [id \in {r.id : r \in {x \in reported : x.volume > 0}} |->
              (CHOOSE r \in reported : r.id = id).volume]

\* prisma.item.findMany: items with at least one price row, the 20 latest
\* price rows of each
findItemsWithPrices(rows) ==
  LET withPrices == SelectSeq(rows, LAMBDA r : Len(r.prices) > 0)
  IN  [i \in 1..Len(withPrices) |->
         [withPrices[i] EXCEPT !.prices = Take(withPrices[i].prices, 20)]]

----------------------------------------------------------------------------
(* PriceService.getFlipOpportunities                                       *)

DefaultFilters ==
  [minVolume |-> 0, maxVolatility |-> VOLATILITY_EXTREME,
   includeSpikes |-> FALSE, includeHighRisk |-> FALSE]

SOFT_VOLATILITY_LIMIT == 25

\* mutant: the hard ceiling is not applied
PassesVolatilityGates_NoCeiling(volatility, includeHighRisk) ==
  ~(~includeHighRisk /\ VolGreater(volatility, SOFT_VOLATILITY_LIMIT))

\* the two `continue` gates on volatility
PassesVolatilityGates(volatility, includeHighRisk) ==
  /\ ~(~includeHighRisk /\ VolGreater(volatility, SOFT_VOLATILITY_LIMIT))
  /\ ~VolGreater(volatility, VOLATILITY_EXTREME)

PositiveOnly(s) == SelectSeq(s, LAMBDA x : x > 0)

\* mutant: the latest sample is rejected only when it has neither price
MissingLatestPrice_BothMissing(latestPrice) ==
  ~Truthy(latestPrice.high) /\ ~Truthy(latestPrice.low)

\* the `continue` gate on the latest price sample
MissingLatestPrice(latestPrice) ==
  ~Truthy(latestPrice.high) \/ ~Truthy(latestPrice.low)

\* mutant: a margin of exactly 0 is let through
NotProfitable_ZeroMarginPasses(margin, avgPrice) ==
  margin < 0 \/ ~Greater(avgPrice, 0)

\* the `continue` gate on margin and average price
NotProfitable(margin, avgPrice) ==
  margin <= 0 \/ ~Greater(avgPrice, 0)

\* one iteration of the loop over items: <<>> when the item is skipped by a
\* `continue`, else the one opportunity pushed
EvaluateItem(item, volumeData, budgetArg, f) ==
  IF Len(item.prices) = 0 THEN <<>>
  ELSE
  LET latestPrice == item.prices[1]
  IN
  IF MissingLatestPrice(latestPrice) THEN <<>>
  ELSE
  LET volume == IF item.id \in DOMAIN volumeData THEN OrZero(volumeData[item.id]) ELSE 0
  IN
  IF ~hassufficientVolume(volume, latestPrice.high) THEN <<>>
  ELSE
  LET avgPrice == Div(latestPrice.high + latestPrice.low, 2)
      margin == calculateMargin(latestPrice.high, latestPrice.low)
      marginPercent == calculateMarginPercent(margin, latestPrice.low)
  IN
  IF NotProfitable(margin, avgPrice) THEN <<>>
  ELSE
  LET window == Take(item.prices, 10)
      recentHighs == PositiveOnly([i \in 1..Len(window) |-> OrZero(window[i].high)])
      recentLows == PositiveOnly([i \in 1..Len(window) |-> OrZero(window[i].low)])
      volatility == calculateVolatility(recentHighs)
      riskLevel == getRiskLevel(volatility)
  IN
  IF ~PassesVolatilityGates(volatility, f.includeHighRisk) THEN <<>>
  ELSE
  LET priceAnalysis == detectPriceAnomalies(latestPrice.high, latestPrice.low,
                                            recentHighs, recentLows)
  IN
  IF ~f.includeSpikes /\ ~priceAnalysis.isStable THEN <<>>
  ELSE
  LET quantity == calculateOptimalQuantity(budgetArg, avgPrice, item.buyLimit,
                                           volume, Whole(1))
  IN
  IF quantity = 0 THEN <<>>
  ELSE
  LET totalCost == quantity * latestPrice.low
      totalProfit == quantity * margin
      profitAfterTax == calculateProfitAfterTax(margin, latestPrice.high, quantity)
      roi == calculateROI(profitAfterTax, totalCost)
  IN  <<[id |-> item.id,
         currentHigh |-> latestPrice.high,
         currentLow |-> latestPrice.low,
         avgPrice |-> avgPrice,
         margin |-> margin,
         marginPercent |-> marginPercent,
         roi |-> roi,
         quantity |-> quantity,
         totalCost |-> totalCost,
         totalProfit |-> totalProfit,
         profitAfterTax |-> profitAfterTax,
         buyLimit |-> item.buyLimit,
         volume |-> volume,
         volatility |-> volatility,
         riskLevel |-> riskLevel,
         isStable |-> priceAnalysis.isStable]>>

\* the `opportunities` array after the loop over items
EvaluateItems(rows, budgetArg, f) ==
  LET volumeData == fetchVolumeData(rows)
      items == findItemsWithPrices(rows)
      Pushed[i \in 0..Len(items)] ==
        IF i = 0 THEN <<>>
        ELSE Pushed[i - 1] \o EvaluateItem(items[i], volumeData, budgetArg, f)
  IN  Pushed[Len(items)]

ROI_SORT_BUDGET == 100000000

\* mutant: a budget of exactly ROI_SORT_BUDGET already sorts by roi
RankOpportunities_RoiAtThreshold(evaluated, budgetArg, f) ==
  LET profitableOpportunities ==
        filterProfitableOpportunities(evaluated, 1000, 5, f.minVolume, f.maxVolatility)
  IN  IF budgetArg >= ROI_SORT_BUDGET
      THEN SortDescending(profitableOpportunities, "roi")
      ELSE sortOpportunitiesByScore(profitableOpportunities)

\* the post-filter and the sort of the evaluated opportunities
RankOpportunities(evaluated, budgetArg, f) ==
  LET profitableOpportunities ==
        filterProfitableOpportunities(evaluated, 1000, 5, f.minVolume, f.maxVolatility)
  IN  IF budgetArg > ROI_SORT_BUDGET
      THEN SortDescending(profitableOpportunities, "roi")
      ELSE sortOpportunitiesByScore(profitableOpportunities)

\* destructuring defaults of getFlipOpportunities' second parameter
WithDefaults(f) ==
  [k \in DOMAIN DefaultFilters |-> IF k \in DOMAIN f THEN f[k] ELSE DefaultFilters[k]]

\* the service's work up to the return of getFlipOpportunities
RunFlipOpportunities(b, f) ==
  /\ budget' = b
  /\ filters' = f
  /\ candidates' = EvaluateItems(db, b, WithDefaults(f))
  /\ opportunities' = RankOpportunities(candidates', b, WithDefaults(f))

----------------------------------------------------------------------------
(* PriceService.getPortfolioSuggestion                                     *)

maxItems == 8

\* mutant: one slot too many (> instead of >=)
LoopBreaks_OffByOne(remaining, selectedCount) ==
  remaining <= 0 \/ selectedCount > maxItems

\* mutant: an exhausted budget does not end the loop
LoopBreaks_IgnoresBudget(remaining, selectedCount) ==
  selectedCount >= maxItems

\* the `break` condition at the head of the selection loop
LoopBreaks(remaining, selectedCount) ==
  remaining <= 0 \/ selectedCount >= maxItems

\* mutant: the evaluated quantity is taken without looking at the remaining budget
AdjustedQuantity_IgnoresRemaining(opportunity, remaining, totalBudget) ==
  IF opportunity.buyLimit = 0
  THEN LET volumeMultiplier == IF 2 * remaining > totalBudget THEN 2 ELSE 1
       IN  Min(MathFloor(Div(remaining, opportunity.currentLow)),
               (opportunity.volume * volumeMultiplier) \div 10)
  ELSE opportunity.quantity

\* mutant: an item with a buy limit is sized by the remaining budget alone
AdjustedQuantity_IgnoresEvaluated(opportunity, remaining, totalBudget) ==
  IF opportunity.buyLimit = 0
  THEN LET volumeMultiplier == IF 2 * remaining > totalBudget THEN 2 ELSE 1
       IN  Min(MathFloor(Div(remaining, opportunity.currentLow)),
               (opportunity.volume * volumeMultiplier) \div 10)
  ELSE MathFloor(Div(remaining, opportunity.currentLow))

\* mutant: the relaxed volume multiplier 0.2 is used whatever budget remains
AdjustedQuantity_AlwaysRelaxed(opportunity, remaining, totalBudget) ==
  IF opportunity.buyLimit = 0
  THEN Min(MathFloor(Div(remaining, opportunity.currentLow)),
           (opportunity.volume * 2) \div 10)
  ELSE Min(opportunity.quantity, MathFloor(Div(remaining, opportunity.currentLow)))

\* adjustedQuantity; the volume multiplier 0.2 or 0.1 is volumeMultiplier / 10,
\* and remainingBudget > budget * 0.5 is 2 * remainingBudget > budget
AdjustedQuantity(opportunity, remaining, totalBudget) ==
  IF opportunity.buyLimit = 0
  THEN LET volumeMultiplier == IF 2 * remaining > totalBudget THEN 2 ELSE 1
       IN  Min(MathFloor(Div(remaining, opportunity.currentLow)),
               (opportunity.volume * volumeMultiplier) \div 10)
  ELSE Min(opportunity.quantity, MathFloor(Div(remaining, opportunity.currentLow)))

\* mutant: the profit after tax of the evaluated quantity is kept
AdjustedOpportunity_StaleProfit(opportunity, adjustedQuantity) ==
  LET totalCost == adjustedQuantity * opportunity.currentLow
  IN  [opportunity EXCEPT !.quantity = adjustedQuantity,
                          !.totalCost = totalCost,
                          !.totalProfit = adjustedQuantity * opportunity.margin,
                          !.roi = calculateROI(opportunity.profitAfterTax, totalCost)]

\* adjustedOpportunity: the metrics recomputed for the adjusted quantity
AdjustedOpportunity(opportunity, adjustedQuantity) ==
  LET totalCost == adjustedQuantity * opportunity.currentLow
      profitAfterTax == calculateProfitAfterTax(opportunity.margin,
                                                opportunity.currentHigh,
                                                adjustedQuantity)
  IN  [opportunity EXCEPT !.quantity = adjustedQuantity,
                          !.totalCost = totalCost,
                          !.totalProfit = adjustedQuantity * opportunity.margin,
                          !.profitAfterTax = profitAfterTax,
                          !.roi = calculateROI(profitAfterTax, totalCost)]

RECURSIVE SumField(_, _)
SumField(s, field) ==
  IF s = <<>> THEN 0 ELSE Head(s)[field] + SumField(Tail(s), field)

\* the portfolio-wide metrics and the returned PortfolioSuggestion
PortfolioSummary(totalBudget, selected) ==
  LET totalCost == SumField(selected, "totalCost")
      totalProfit == SumField(selected, "totalProfit")
      totalProfitAfterTax == SumField(selected, "profitAfterTax")
  IN  [kind |-> "portfolio",
       totalBudget |-> totalBudget,
       totalCost |-> totalCost,
       totalProfit |-> totalProfit,
       totalProfitAfterTax |-> totalProfitAfterTax,
       totalROI |-> calculateROI(totalProfitAfterTax, totalCost),
       opportunities |-> selected,
       itemCount |-> Len(selected),
       budgetUtilization |-> Times(Div(totalCost, totalBudget), 100)]

\* entry of getPortfolioSuggestion up to the head of the selection loop
StartPortfolio(b, f) ==
  /\ RunFlipOpportunities(b, f)
  /\ remainingBudget' = b
  /\ selectedOpportunities' = <<>>
  /\ idx' = 1
  /\ pc' = "loop"

Budgets ==
  {-1000, 0, 10000, 20000, 20050, 50000, 10000000, ROI_SORT_BUDGET, 200000000}

FilterChoices ==
  [minVolume : {0, 2400}, maxVolatility : {10, VOLATILITY_EXTREME, 40},
   includeSpikes : BOOLEAN, includeHighRisk : BOOLEAN]

\* a caller other than the HTTP routes invokes getPortfolioSuggestion
GetPortfolioSuggestion(b, f) ==
  /\ pc = "idle" /\ request = None
  /\ StartPortfolio(b, f)
  /\ UNCHANGED <<call, db, result, request, reply>>
  /\ UNCHANGED <<syncVars, component, volumeApi>>

\* one iteration of the selection loop
PortfolioStep ==
  /\ pc = "loop"
  /\ idx <= Len(opportunities)
  /\ ~LoopBreaks(remainingBudget, Len(selectedOpportunities))
  /\ LET opportunity == opportunities[idx]
         adjustedQuantity == AdjustedQuantity(opportunity, remainingBudget, budget)
         adjustedOpportunity == AdjustedOpportunity(opportunity, adjustedQuantity)
     IN  IF adjustedQuantity > 0
         THEN /\ selectedOpportunities' = Append(selectedOpportunities, adjustedOpportunity)
              /\ remainingBudget' = remainingBudget - adjustedOpportunity.totalCost
         ELSE UNCHANGED <<selectedOpportunities, remainingBudget>>
  /\ idx' = idx + 1
  /\ UNCHANGED <<call, db, pc, budget, filters, candidates, opportunities, result,
                 request, reply>>
  /\ UNCHANGED <<syncVars, component, volumeApi>>

\* the loop ends (list exhausted or `break`); the metrics are computed and the
\* suggestion is returned, to the route handler when a request is being served
PortfolioReturn ==
  /\ pc = "loop"
  /\ idx > Len(opportunities) \/ LoopBreaks(remainingBudget, Len(selectedOpportunities))
  /\ result' = PortfolioSummary(budget, selectedOpportunities)
  /\ pc' = "done"
  /\ reply' = IF request = None THEN reply
              ELSE [status |-> 200, success |-> TRUE, data |-> result']
  /\ UNCHANGED <<call, db, budget, filters, candidates, opportunities, idx,
                 remainingBudget, selectedOpportunities, request>>
  /\ UNCHANGED <<syncVars, component, volumeApi>>

\* a caller other than the HTTP routes invokes getFlipOpportunities
GetFlipOpportunities(b, f) ==
  /\ pc = "idle" /\ request = None
  /\ RunFlipOpportunities(b, f)
  /\ result' = [kind |-> "opportunities", list |-> opportunities']
  /\ pc' = "done"
  /\ UNCHANGED <<call, db, idx, remainingBudget, selectedOpportunities, request, reply>>
  /\ UNCHANGED <<syncVars, component, volumeApi>>

----------------------------------------------------------------------------
(* HTTP routes                                                             *)

\* A query-string parameter: absent, a string that is no number, or the
\* decimal text of an integer.
Absent == [kind |-> "absent"]

Text == [kind |-> "text"]

Num(n) == [kind |-> "number", value |-> n]

\* parseFloat / parseInt of a parameter that is present: the number, or NaN
ParseNumber(q) == IF q.kind = "number" THEN Whole(q.value) ELSE [num |-> 0, den |-> 0]

\* the query-string value is a truthy string (every present value here is
\* non-empty)
Present(q) == q.kind # "absent"

DEFAULT_PORTFOLIO_BUDGET == 10000000

DEFAULT_OPPORTUNITIES_BUDGET == 100000000

DEFAULT_LIMIT == 50

INT32_MAX == 2147483647

\* parseFloat(request.query.budget) || 10000000: NaN and 0 are falsy
PortfolioBudget(q) ==
  LET parsed == IF Present(q) THEN ParseNumber(q) ELSE [num |-> 0, den |-> 0]
  IN  IF IsNaN(parsed) \/ parsed.num = 0 THEN DEFAULT_PORTFOLIO_BUDGET ELSE parsed.num

\* parseFloat(request.query.budget || '100000000')
OpportunitiesBudget(q) ==
  IF Present(q) THEN ParseNumber(q) ELSE Whole(DEFAULT_OPPORTUNITIES_BUDGET)

\* the { minVolume, maxVolatility } object both routes pass to the service
RouteFilters(qMinVolume, qMaxVolatility) ==
  [minVolume |-> IF Present(qMinVolume) THEN ParseNumber(qMinVolume).num ELSE 0,
   maxVolatility |-> IF Present(qMaxVolatility) THEN ParseNumber(qMaxVolatility).num
                     ELSE VOLATILITY_EXTREME]

BudgetRejected(b) == b <= 0 \/ b > INT32_MAX

QueryBudgets == {Absent, Text} \cup {Num(n) : n \in {-1000, 0, 20000, 10000000}}

\* the opportunities route hands parseFloat's result to the service as it is;
\* the budgets enumerated for it are numeric or absent
OpportunitiesQueryBudgets == QueryBudgets \ {Text}

QueryMinVolumes == {Absent, Num(2400)}

QueryMaxVolatilities == {Absent, Num(10), Num(40)}

QueryLimits == {Absent, Num(1)}

\* includeSpikes / includeHighRisk as the client writes them into both URLs;
\* neither route reads them
QueryFlags == {"false", "true"}

\* GET /api/portfolio
HttpGetPortfolio(qBudget, qMinVolume, qMaxVolatility, qIncludeSpikes, qIncludeHighRisk) ==
  /\ pc = "idle" /\ request = None
  /\ request' = [route |-> "/api/portfolio", budget |-> qBudget,
                 minVolume |-> qMinVolume, maxVolatility |-> qMaxVolatility,
                 includeSpikes |-> qIncludeSpikes,
                 includeHighRisk |-> qIncludeHighRisk]
  /\ LET b == PortfolioBudget(qBudget)
     IN  IF BudgetRejected(b)
         THEN /\ reply' = [status |-> 400, success |-> FALSE]
              /\ UNCHANGED <<budget, filters, candidates, opportunities, idx,
                             remainingBudget, selectedOpportunities, pc>>
         ELSE /\ StartPortfolio(b, RouteFilters(qMinVolume, qMaxVolatility))
              /\ UNCHANGED reply
  /\ UNCHANGED <<call, db, result>>
  /\ UNCHANGED <<syncVars, component, volumeApi>>

\* GET /api/opportunities
HttpGetOpportunities(qBudget, qLimit, qMinVolume, qMaxVolatility, qIncludeSpikes, qIncludeHighRisk) ==
  /\ pc = "idle" /\ request = None
  /\ request' = [route |-> "/api/opportunities", budget |-> qBudget, limit |-> qLimit,
                 minVolume |-> qMinVolume, maxVolatility |-> qMaxVolatility,
                 includeSpikes |-> qIncludeSpikes,
                 includeHighRisk |-> qIncludeHighRisk]
  /\ LET b == OpportunitiesBudget(qBudget).num
         limit == IF Present(qLimit) THEN ParseNumber(qLimit).num ELSE DEFAULT_LIMIT
     IN  /\ RunFlipOpportunities(b, RouteFilters(qMinVolume, qMaxVolatility))
         /\ result' = [kind |-> "opportunities", list |-> opportunities']
         /\ reply' = [status |-> 200, success |-> TRUE,
                      data |-> Take(opportunities', limit)]
  /\ pc' = "done"
  /\ UNCHANGED <<call, db, idx, remainingBudget, selectedOpportunities>>
  /\ UNCHANGED <<syncVars, component, volumeApi>>

----------------------------------------------------------------------------
(* The service with its database                                           *)

Init ==
  /\ call = None
  /\ SyncIdle
  /\ db \in Databases
  /\ pc = "idle"
  /\ budget = 0
  /\ filters = None
  /\ candidates = <<>>
  /\ opportunities = <<>>
  /\ idx = 0
  /\ remainingBudget = 0
  /\ selectedOpportunities = <<>>
  /\ result = None
  /\ request = None
  /\ reply = None
  /\ component = Unmounted
  /\ volumeApi \in {"up", "down"}

Next ==
  \/ \E b \in Budgets, f \in FilterChoices : GetPortfolioSuggestion(b, f)
  \/ PortfolioStep
  \/ PortfolioReturn
  \/ \E b \in Budgets, f \in FilterChoices : GetFlipOpportunities(b, f)
  \/ \E qBudget \in QueryBudgets, qMinVolume \in QueryMinVolumes,
        qMaxVolatility \in QueryMaxVolatilities,
        qIncludeSpikes \in QueryFlags, qIncludeHighRisk \in QueryFlags :
          HttpGetPortfolio(qBudget, qMinVolume, qMaxVolatility, qIncludeSpikes,
                           qIncludeHighRisk)
  \/ \E qBudget \in OpportunitiesQueryBudgets, qLimit \in QueryLimits,
        qMinVolume \in QueryMinVolumes, qMaxVolatility \in QueryMaxVolatilities,
        qIncludeSpikes \in QueryFlags, qIncludeHighRisk \in QueryFlags :
          HttpGetOpportunities(qBudget, qLimit, qMinVolume, qMaxVolatility,
                               qIncludeSpikes, qIncludeHighRisk)

Spec == Init /\ [][Next]_vars

----------------------------------------------------------------------------
(* Data synchronisation: PriceService.syncItems / syncPrices /             *)
(* syncHistoricalPrices, the PriceSyncJob scheduler, POST /api/sync and    *)
(* the server start-up                                                     *)

\* the evaluator and its routes take no step while the sync jobs are followed
evalVars == <<call, db, pc, budget, filters, candidates, opportunities, idx,
              remainingBudget, selectedOpportunities, result, request, component,
              volumeApi>>

\* an entry of the /latest response
PriceEntry(id, high, low) == [id |-> id, high |-> high, low |-> low]

\* responses of OSRSApiService.fetchLatestPrices, in Object.entries order
LatestPrices ==
  {<<PriceEntry(1, 110, 100), PriceEntry(2, 220, Null), PriceEntry(3, 50, 40)>>,
   <<PriceEntry(1, Null, Null), PriceEntry(2, 0, 0), PriceEntry(2, Null, 95)>>}

\* mutant: a price of 0 counts as a price
NoValidPrice_ZeroIsPrice(priceData) ==
  priceData.high = Null /\ priceData.low = Null

\* `!priceData.high && !priceData.low`
NoValidPrice(priceData) == ~Truthy(priceData.high) /\ ~Truthy(priceData.low)

\* the row prisma.price.create inserts: `priceData.high || null`
PriceRow(itemId, priceData) ==
  [itemId |-> itemId,
   high |-> IF Truthy(priceData.high) THEN priceData.high ELSE Null,
   low |-> IF Truthy(priceData.low) THEN priceData.low ELSE Null]

\* the 24h volumes by item id that fetchVolumeData returns; the empty map also
\* when the volume endpoint fails
VolumeReports ==
  {[id \in {} |-> 0],
   [id \in {1, 2} |-> IF id = 1 THEN 500 ELSE 900],
   [id \in AllIds |-> IF id = 1 THEN 500 ELSE IF id = 2 THEN 900 ELSE 100]}

TOP_HISTORY_ITEMS == 100

\* Object.entries(volumeData).sort((a, b) => b[1] - a[1]).map(id): the ids by
\* volume, largest first, equal volumes in ascending id order
RECURSIVE SortIdsByVolume(_, _)
SortIdsByVolume(volumeData, ids) ==
  IF ids = {} THEN <<>>
  ELSE LET first == CHOOSE i \in ids :
                      \A j \in ids :
                        \/ volumeData[i] > volumeData[j]
                        \/ volumeData[i] = volumeData[j] /\ i <= j
       IN  <<first>> \o SortIdsByVolume(volumeData, ids \ {first})

\* number of hourly records fetch1hHistory returns for an item
HourlyRecordCounts == {0, 2}

MaxInvocations == 3

\* start(): the initial sync runs only on an empty Item table; then the
\* scheduler is started and the server listens
ServerStart ==
  /\ phase = "starting"
  /\ IF itemRows = {}
     THEN /\ phase' = "initialSync"
          /\ handler' = [handler EXCEPT !["initial"].pc = "syncItems"]
     ELSE /\ phase' = "listening"
          /\ UNCHANGED handler
  /\ UNCHANGED <<itemRows, priceRows, historyRows, historyDone, isRunning,
                 apiMapping, invocations, reply>>
  /\ UNCHANGED evalVars

\* a game update adds an item to the mapping the API serves
PublishItem ==
  /\ phase # "exited"
  /\ 2 \notin apiMapping
  /\ apiMapping' = apiMapping \cup {2}
  /\ UNCHANGED <<phase, itemRows, priceRows, historyRows, historyDone, isRunning,
                 handler, invocations, reply>>
  /\ UNCHANGED evalVars

\* the 5-minute cron callback up to its first await
CronTick ==
  /\ phase = "listening"
  /\ invocations < MaxInvocations
  /\ invocations' = invocations + 1
  /\ IF isRunning
     THEN UNCHANGED <<isRunning, handler>>
     ELSE /\ isRunning' = TRUE
          /\ handler' = [handler EXCEPT !["cron"].pc = "syncPrices"]
  /\ UNCHANGED <<phase, itemRows, priceRows, historyRows, historyDone, apiMapping,
                 reply>>
  /\ UNCHANGED evalVars

\* the hourly cron callback up to its first await
HourlyTick ==
  /\ phase = "listening"
  /\ handler["hourly"].pc = "idle"
  /\ invocations < MaxInvocations
  /\ invocations' = invocations + 1
  /\ handler' = [handler EXCEPT !["hourly"].pc = "syncItems"]
  /\ UNCHANGED <<phase, itemRows, priceRows, historyRows, historyDone, isRunning,
                 apiMapping, reply>>
  /\ UNCHANGED evalVars

\* POST /api/sync up to its first await
PostSync ==
  /\ phase = "listening"
  /\ handler["manual"].pc = "idle"
  /\ invocations < MaxInvocations
  /\ invocations' = invocations + 1
  /\ handler' = [handler EXCEPT !["manual"].pc = "syncItems"]
  /\ reply' = None
  /\ UNCHANGED <<phase, itemRows, priceRows, historyRows, historyDone, isRunning,
                 apiMapping>>
  /\ UNCHANGED evalVars

\* an awaited call of handler p threw: runInitialSync rethrows and start()
\* exits the process; the cron callbacks log; the route answers 500; the
\* 5-minute callback's `finally` clears isRunning
HandlerFails(p) ==
  /\ handler' = [handler EXCEPT ![p] = Resting]
  /\ phase' = IF p = "initial" THEN "exited" ELSE phase
  /\ isRunning' = IF p = "cron" THEN FALSE ELSE isRunning
  /\ reply' = IF p = "manual" THEN [status |-> 500, success |-> FALSE] ELSE reply

\* syncItems: every item of the mapping is upserted
SyncItems(p) ==
  /\ handler[p].pc = "syncItems"
  /\ itemRows' = itemRows \cup apiMapping
  /\ handler' = [handler EXCEPT ![p].pc = IF p = "hourly" THEN "syncHistory"
                                         ELSE "syncPrices"]
  /\ UNCHANGED <<phase, priceRows, historyRows, historyDone, isRunning, apiMapping,
                 invocations, reply>>
  /\ UNCHANGED evalVars

\* syncItems throws (the mapping request failed)
SyncItemsFails(p) ==
  /\ handler[p].pc = "syncItems"
  /\ HandlerFails(p)
  /\ UNCHANGED <<itemRows, priceRows, historyRows, historyDone, apiMapping,
                 invocations>>
  /\ UNCHANGED evalVars

\* syncPrices up to the loop: the latest prices and the item mapping are fetched
SyncPricesStart(p, prices) ==
  /\ handler[p].pc = "syncPrices"
  /\ handler' = [handler EXCEPT ![p] =
                   [@ EXCEPT !.pc = "priceLoop", !.entries = prices, !.pos = 1,
                             !.mappingById = apiMapping, !.mappingRefetched = FALSE]]
  /\ UNCHANGED <<phase, itemRows, priceRows, historyRows, historyDone, isRunning,
                 apiMapping, invocations, reply>>
  /\ UNCHANGED evalVars

\* one iteration of the loop over the fetched prices
SyncPricesStep(p) ==
  /\ handler[p].pc = "priceLoop"
  /\ handler[p].pos <= Len(handler[p].entries)
  /\ LET h == handler[p]
         priceData == h.entries[h.pos]
         itemId == priceData.id
     IN  IF NoValidPrice(priceData)
         THEN /\ handler' = [handler EXCEPT ![p].pos = h.pos + 1]
              /\ UNCHANGED <<itemRows, priceRows>>
         ELSE LET existingItem == itemId \in itemRows
                  refetch == /\ ~existingItem
                             /\ itemId \notin h.mappingById
                             /\ ~h.mappingRefetched
                  synced == IF refetch THEN itemRows \cup apiMapping ELSE itemRows
                  mappingAfter == IF refetch THEN apiMapping ELSE h.mappingById
                  mapped == itemId \in mappingAfter
              IN  /\ itemRows' = IF ~existingItem /\ mapped THEN synced \cup {itemId}
                                 ELSE synced
                  /\ priceRows' = IF existingItem \/ mapped
                                  THEN priceRows \cup {PriceRow(itemId, priceData)}
                                  ELSE priceRows
                  /\ handler' = [handler EXCEPT ![p] =
                                   [@ EXCEPT !.pos = h.pos + 1,
                                             !.mappingById = mappingAfter,
                                             !.mappingRefetched =
                                               h.mappingRefetched \/ refetch]]
  /\ UNCHANGED <<phase, historyRows, historyDone, isRunning, apiMapping, invocations,
                 reply>>
  /\ UNCHANGED evalVars

\* syncPrices returns: runInitialSync goes on to the historical sync, the
\* 5-minute callback clears isRunning, the route answers
SyncPricesReturn(p) ==
  /\ handler[p].pc = "priceLoop"
  /\ handler[p].pos > Len(handler[p].entries)
  /\ handler' = [handler EXCEPT ![p] =
                   IF p = "initial" THEN [Resting EXCEPT !.pc = "syncHistory"]
                   ELSE Resting]
  /\ isRunning' = IF p = "cron" THEN FALSE ELSE isRunning
  /\ reply' = IF p = "manual" THEN [status |-> 200, success |-> TRUE] ELSE reply
  /\ UNCHANGED <<phase, itemRows, priceRows, historyRows, historyDone, apiMapping,
                 invocations>>
  /\ UNCHANGED evalVars

\* syncPrices throws (a request or a database call failed)
SyncPricesFails(p) ==
  /\ handler[p].pc \in {"syncPrices", "priceLoop"}
  /\ HandlerFails(p)
  /\ UNCHANGED <<itemRows, priceRows, historyRows, historyDone, apiMapping,
                 invocations>>
  /\ UNCHANGED evalVars

\* the caller of syncHistoricalPrices goes on: start() starts the scheduler and
\* listens, the hourly callback ends
HistoryReturnsTo(p) ==
  /\ handler' = [handler EXCEPT ![p] = Resting]
  /\ phase' = IF p = "initial" THEN "listening" ELSE phase

\* syncHistoricalPrices up to the loop over targetIds
SyncHistoryStart(p, volumeData) ==
  /\ handler[p].pc = "syncHistory"
  /\ LET missingHistory == {id \in itemRows : historyRows[id] = 0}
         topIds == Take(SortIdsByVolume(volumeData, DOMAIN volumeData),
                        TOP_HISTORY_ITEMS)
         targetIds == IF historyDone
                      THEN SelectSeq(topIds, LAMBDA id : id \in missingHistory)
                      ELSE topIds
     IN  IF historyDone /\ missingHistory = {}
         THEN HistoryReturnsTo(p)
         ELSE /\ handler' = [handler EXCEPT ![p] =
                               [@ EXCEPT !.pc = "historyLoop", !.targetIds = targetIds]]
              /\ UNCHANGED phase
  /\ UNCHANGED <<itemRows, priceRows, historyRows, historyDone, isRunning, apiMapping,
                 invocations, reply>>
  /\ UNCHANGED evalVars

\* one iteration of the loop over targetIds: the item's hourly records are
\* fetched and, when there are any, inserted
SyncHistoryStep(p, records) ==
  /\ handler[p].pc = "historyLoop"
  /\ handler[p].targetIds # <<>>
  /\ LET itemId == Head(handler[p].targetIds)
     IN  /\ records > 0 => itemId \in itemRows
         /\ historyRows' = IF records > 0
                           THEN [historyRows EXCEPT ![itemId] = @ + 1]
                           ELSE historyRows
  /\ handler' = [handler EXCEPT ![p].targetIds = Tail(@)]
  /\ UNCHANGED <<phase, itemRows, priceRows, historyDone, isRunning, apiMapping,
                 invocations, reply>>
  /\ UNCHANGED evalVars

\* a request or an insert of the loop throws: the error is caught and logged,
\* the done-flag is not set
SyncHistoryFails(p) ==
  /\ handler[p].pc = "historyLoop"
  /\ handler[p].targetIds # <<>>
  /\ HistoryReturnsTo(p)
  /\ UNCHANGED <<itemRows, priceRows, historyRows, historyDone, isRunning, apiMapping,
                 invocations, reply>>
  /\ UNCHANGED evalVars

\* the loop is over: the done-flag is set
SyncHistoryReturn(p) ==
  /\ handler[p].pc = "historyLoop"
  /\ handler[p].targetIds = <<>>
  /\ historyDone' = TRUE
  /\ HistoryReturnsTo(p)
  /\ UNCHANGED <<itemRows, priceRows, historyRows, isRunning, apiMapping, invocations,
                 reply>>
  /\ UNCHANGED evalVars

\* the server process starts on a new database, or on the database an earlier
\* run of the server left behind
InitSync ==
  /\ call = None
  /\ db = <<>>
  /\ pc = "idle"
  /\ budget = 0
  /\ filters = None
  /\ candidates = <<>>
  /\ opportunities = <<>>
  /\ idx = 0
  /\ remainingBudget = 0
  /\ selectedOpportunities = <<>>
  /\ result = None
  /\ request = None
  /\ reply = None
  /\ component = Unmounted
  /\ volumeApi = "up"
  /\ phase = "starting"
  /\ \/ /\ itemRows = {}
        /\ priceRows = {}
        /\ historyRows = [id \in AllIds |-> 0]
     \/ /\ itemRows = {1}
        /\ priceRows = {PriceRow(1, PriceEntry(1, 110, 100))}
        /\ historyRows = [id \in AllIds |-> IF id = 1 THEN 1 ELSE 0]
  /\ historyDone = FALSE
  /\ isRunning = FALSE
  /\ apiMapping = {1}
  /\ handler = [p \in Handlers |-> Resting]
  /\ invocations = 0

NextSync ==
  \/ ServerStart
  \/ PublishItem
  \/ CronTick
  \/ HourlyTick
  \/ PostSync
  \/ \E p \in Handlers : SyncItems(p)
  \/ \E p \in Handlers : SyncItemsFails(p)
  \/ \E p \in Handlers, prices \in LatestPrices : SyncPricesStart(p, prices)
  \/ \E p \in Handlers : SyncPricesStep(p)
  \/ \E p \in Handlers : SyncPricesReturn(p)
  \/ \E p \in Handlers : SyncPricesFails(p)
  \/ \E p \in Handlers, volumeData \in VolumeReports : SyncHistoryStart(p, volumeData)
  \/ \E p \in Handlers, records \in HourlyRecordCounts : SyncHistoryStep(p, records)
  \/ \E p \in Handlers : SyncHistoryFails(p)
  \/ \E p \in Handlers : SyncHistoryReturn(p)

SpecSync == InitSync /\ [][NextSync]_vars

----------------------------------------------------------------------------
(* useApi: the data-fetching hook of the client                            *)

\* urls the component passes to the hook
Urls == {"/api/portfolio?budget=10000000", "/api/portfolio?budget=20000000"}

\* what the request of an effect settles with: a response with success true,
\* a response with success false, or a rejected request
Outcomes == {"success", "failure", "rejected"}

\* effects the component runs before the model stops re-rendering it
MaxEffects == 3

\* one run of the effect: its closure variable `cancelled` and whether the
\* awaited axios.get has settled
Effect(url) == [url |-> url, cancelled |-> FALSE, settled |-> FALSE]

\* the effect's cleanup function
Cleanup(effects) ==
  [i \in 1..Len(effects) |->
     IF i = Len(effects) THEN [effects[i] EXCEPT !.cancelled = TRUE] ELSE effects[i]]

\* mutant: the continuation after the await never looks at `cancelled`
Settled_IgnoresCancelled(c, k, outcome) ==
  [c EXCEPT !.effects[k].settled = TRUE,
            !.data = IF outcome = "success" THEN c.effects[k].url ELSE @,
            !.error = IF outcome = "success" THEN @ ELSE outcome,
            !.loading = FALSE]

\* fetchData after the await: the try continuation or the catch block, then
\* the finally block; the response's data names the url it was requested for
Settled(c, k, outcome) ==
  IF c.effects[k].cancelled
  THEN [c EXCEPT !.effects[k].settled = TRUE]
  ELSE [c EXCEPT !.effects[k].settled = TRUE,
                 !.data = IF outcome = "success" THEN c.effects[k].url ELSE @,
                 !.error = IF outcome = "success" THEN @ ELSE outcome,
                 !.loading = FALSE]

\* first render: the useState initial values, then the effect runs fetchData
\* up to its await
Mount(url) ==
  /\ ~component.mounted /\ component.effects = <<>>
  /\ component' = [mounted |-> TRUE, url |-> url, data |-> NoValue, loading |-> TRUE,
                   error |-> NoValue, effects |-> <<Effect(url)>>]
  /\ UNCHANGED serverVars

\* a render with a changed url (or dependency): the previous effect's cleanup,
\* then the effect again: setLoading(true), setError(null), a new request
Rerender(url) ==
  /\ component.mounted /\ url # component.url
  /\ Len(component.effects) < MaxEffects
  /\ component' = [component EXCEPT !.url = url, !.loading = TRUE, !.error = NoValue,
                                    !.effects = Cleanup(@) \o <<Effect(url)>>]
  /\ UNCHANGED serverVars

\* the component unmounts: the last effect's cleanup
Unmount ==
  /\ component.mounted
  /\ component' = [component EXCEPT !.mounted = FALSE, !.effects = Cleanup(@)]
  /\ UNCHANGED serverVars

\* the request of the k-th effect settles
Respond(k, outcome) ==
  /\ k \in 1..Len(component.effects)
  /\ ~component.effects[k].settled
  /\ component' = Settled(component, k, outcome)
  /\ UNCHANGED serverVars

InitUseApi ==
  /\ call = None
  /\ ServiceIdle

NextUseApi ==
  \/ \E url \in Urls : Mount(url)
  \/ \E url \in Urls : Rerender(url)
  \/ Unmount
  \/ \E k \in 1..MaxEffects, outcome \in Outcomes : Respond(k, outcome)

SpecUseApi == InitUseApi /\ [][NextUseApi]_vars

----------------------------------------------------------------------------
(* Claims                                                                  *)

\* q is the floor of n / d, for d > 0
IsFloorOf(q, n, d) == q * d <= n /\ n < (q + 1) * d

\* C3: for every integer sellPrice >= 0, calculateGETax(sellPrice) is
\* floor(sellPrice * 0.02) clamped to [1, 5,000,000]: never below 1 (tax(0) = 1),
\* never above 5,000,000, and equal to the README formula
\* max(1, min(floor(sellPrice * 0.02), 5000000)).
C3_TaxIsClampedFloor ==
  (call.fn = "calculateGETax" /\ call.returned) =>
    LET s == call.args.sellPrice
        r == call.result
    IN  /\ r >= 1
        /\ r <= 5000000
        /\ (s = 0 => r = 1)
        /\ r = Max(1, Min(s \div 50, 5000000))
        /\ (r > 1 /\ r < 5000000 => IsFloorOf(r, 2 * s, 100))
        /\ (r = 1 => 2 * s < 200)
        /\ (r = 5000000 => s >= 250000000)

C3_Witness ==
  /\ call.fn = "calculateGETax" /\ call.returned
  /\ call.args.sellPrice > 250000000
  /\ call.result = 5000000

QtyRange == -2100..2100

\* C5: calculateOptimalQuantity returns a value <= buyLimit whenever
\* buyLimit # 0, and for buyLimit = 0 exactly
\* min(floor(budget * fraction / avgPrice), floor(budget / avgPrice), volume bound),
\* the volume bound being max(1, floor(volume * 0.1)) for volume > 0 and absent
\* otherwise: the sentinel 0 never acts as a limit of zero.
C5_LimitRespectedAndZeroUnlimited ==
  (call.fn = "calculateOptimalQuantity" /\ call.returned) =>
    LET a == call.args
        r == call.result
    IN  /\ (a.buyLimit # 0 => r <= a.buyLimit)
        /\ (a.buyLimit = 0 =>
              \E byAllocation \in QtyRange :
                /\ IsFloorOf(byAllocation,
                             a.budget * a.maxBudgetPercent.num * a.avgPrice.den,
                             a.maxBudgetPercent.den * a.avgPrice.num)
                /\ \E byBudget \in QtyRange :
                     /\ IsFloorOf(byBudget, a.budget * a.avgPrice.den, a.avgPrice.num)
                     /\ IF a.volume > 0
                        THEN \E tenth \in 0..a.volume :
                               /\ IsFloorOf(tenth, a.volume, 10)
                               /\ r = Min(Min(byAllocation, byBudget), Max(1, tenth))
                        ELSE r = Min(byAllocation, byBudget))

C5_Witness ==
  /\ call.fn = "calculateOptimalQuantity" /\ call.returned
  /\ call.args.buyLimit = 0
  /\ call.args.budget = 1000 /\ call.args.avgPrice = Whole(1)
  /\ call.args.volume = 2000
  /\ call.result = 200

\* C6 (as claimed): the quantity calculateOptimalQuantity returns is never
\* negative, for every input including a zero or negative budget.
C6_QuantityNeverNegative ==
  (call.fn = "calculateOptimalQuantity" /\ call.returned) => call.result >= 0

\* the claim's predicate for keeping a candidate, from its wording
C10_Kept(opp, minVolume, maxVolatility) ==
  /\ opp.profitAfterTax >= 1000
  /\ opp.roi.num >= 5 * opp.roi.den
  /\ opp.marginPercent.num <= 1000 * opp.marginPercent.den
  /\ (IF opp.currentHigh > 1000000 THEN opp.volume >= 50 ELSE opp.volume >= 1200)
  /\ (minVolume > 0 => opp.volume >= minVolume)
  /\ opp.volatility.sqn * 10000 <= maxVolatility * maxVolatility * opp.volatility.sqd

\* C10: filterProfitableOpportunities keeps a candidate, preserving input order,
\* exactly when profitAfterTax >= 1000, roi >= 5, marginPercent <= 1000 (exactly
\* 1000 is kept; 1001 and 1500 are dropped whatever the profit and ROI), the
\* price-tier liquidity check passes (volume >= 50 if currentHigh > 1,000,000,
\* else volume >= 1200), volume >= minVolume when minVolume > 0, and
\* volatility <= maxVolatility.
C10_FilterKeepsExactly ==
  (call.fn = "filterProfitableOpportunities" /\ call.returned) =>
    LET a == call.args
        in == a.opportunities
        out == call.result
        keptIdx == {i \in 1..Len(in) : C10_Kept(in[i], a.minVolume, a.maxVolatility)}
    IN  /\ Len(out) = Cardinality(keptIdx)
        /\ \A j \in 1..Len(out) : out[j].id \in keptIdx /\ out[j] = in[out[j].id]
        /\ \A j \in 1..(Len(out) - 1) : out[j].id < out[j + 1].id
        /\ \A i \in 1..Len(in) :
             in[i].marginPercent \in {Whole(1001), Whole(1500)} =>
               \A j \in 1..Len(out) : out[j].id # i

C10_Witness ==
  /\ call.fn = "filterProfitableOpportunities" /\ call.returned
  /\ Len(call.args.opportunities) = 2
  /\ call.args.opportunities[1].marginPercent = Whole(1500)
  /\ call.args.opportunities[1].profitAfterTax = 1000000
  /\ call.args.opportunities[2].marginPercent = Whole(1000)
  /\ call.result = <<call.args.opportunities[2]>>

\* the list a finished call handed to its caller
ReturnedList ==
  IF result.kind = "portfolio" THEN result.opportunities
  ELSE IF result.kind = "opportunities" THEN result.list
  ELSE <<>>

\* C1: for every ranked candidate list and every budget >= 0, the portfolio
\* returned by getPortfolioSuggestion has totalCost <= budget, totalCost being
\* the sum of the selections' totalCost.
C1_TotalCostWithinBudget ==
  (result.kind = "portfolio" /\ result.totalBudget >= 0) =>
    /\ result.totalCost <= result.totalBudget
    /\ result.totalCost = SumSeq([i \in 1..Len(result.opportunities) |->
                                    result.opportunities[i].totalCost])

\* a budget spent to the last GP, the last selection cut down to what was left
C1_Witness ==
  /\ result.kind = "portfolio"
  /\ result.totalBudget > 0
  /\ Len(result.opportunities) >= 2
  /\ result.totalCost = result.totalBudget
  /\ \E i \in 1..Len(result.opportunities), j \in 1..Len(opportunities) :
       /\ result.opportunities[i].id = opportunities[j].id
       /\ result.opportunities[i].buyLimit # 0
       /\ result.opportunities[i].quantity < opportunities[j].quantity

\* C2: for every ranked candidate list and every budget, the portfolio returned
\* by getPortfolioSuggestion holds at most 8 selections, and itemCount is the
\* number of selections.
C2_AtMostEightSelections ==
  /\ Len(selectedOpportunities) <= 8
  /\ result.kind = "portfolio" =>
       /\ Len(result.opportunities) <= 8
       /\ result.itemCount = Len(result.opportunities)

C2_Witness ==
  /\ result.kind = "portfolio"
  /\ result.itemCount = 8
  /\ Len(opportunities) > 8
  /\ idx <= Len(opportunities)

\* the candidates evaluated for the scenario item of C4
C4_ScenarioCandidates ==
  {i \in 1..Len(candidates) :
     /\ budget = 10000
     /\ candidates[i].currentHigh = 110 /\ candidates[i].currentLow = 100
     /\ candidates[i].volume = 2000 /\ candidates[i].buyLimit = 100}

\* C4 (as claimed): the item currentHigh=110, currentLow=100, volume=2000,
\* positionLimit=100 evaluated for budget=10000 has margin 10, tax 2, profit
\* after tax per unit 8, quantity 100, totalCost 10000, profitAfterTax 800, roi 8%.
C4_ScenarioAsClaimed ==
  \A i \in C4_ScenarioCandidates :
    LET c == candidates[i]
    IN  /\ c.margin = 10
        /\ c.margin * c.quantity - c.profitAfterTax = 2 * c.quantity
        /\ c.quantity = 100
        /\ c.totalCost = 10000
        /\ c.profitAfterTax = 800
        /\ c.roi = Whole(8)

\* C4 (amended): the same item and budget give margin 10, tax 2, profit after
\* tax per unit 8, quantity 95 (the budget is divided by avgPrice = 105, not by
\* currentLow), totalCost 9500, profitAfterTax 760, roi 8%.
C4_ScenarioEvaluation ==
  \A i \in C4_ScenarioCandidates :
    LET c == candidates[i]
    IN  /\ c.margin = 10
        /\ c.margin * c.quantity - c.profitAfterTax = 2 * c.quantity
        /\ c.profitAfterTax = 8 * c.quantity
        /\ c.avgPrice = Whole(105)
        /\ c.quantity = 95
        /\ c.totalCost = 9500
        /\ c.profitAfterTax = 760
        /\ c.roi = Whole(8)

C4_Witness == pc # "idle" /\ C4_ScenarioCandidates # {}

\* C7 (as claimed): a call of getPortfolioSuggestion / getFlipOpportunities with
\* a budget <= 0 is rejected or returns an empty result (no selections,
\* totalCost 0) with well-defined numeric fields: no NaN, no negative quantity
\* or cost reaches the caller.
C7_NonPositiveBudgetHandled ==
  (pc = "done" /\ budget <= 0) =>
    /\ ReturnedList = <<>>
    /\ result.kind = "portfolio" =>
         /\ result.totalCost = 0
         /\ result.itemCount = 0
         /\ IsFinite(result.totalROI)
         /\ IsFinite(result.budgetUtilization)

\* the budget parameter of the request is the decimal text of a number in
\* 1..2,147,483,647
C8_SuppliedBudgetValid ==
  /\ request.budget.kind = "number"
  /\ request.budget.value >= 1
  /\ request.budget.value <= 2147483647

\* C8 (as claimed): GET /api/portfolio answers 400 and never starts portfolio
\* generation when the supplied budget is not a positive number within
\* 1..2,147,483,647, and every route calls the evaluator only with a validated
\* positive budget.
C8_RoutesValidateBudget ==
  request # None =>
    /\ (request.route = "/api/portfolio" /\ ~C8_SuppliedBudgetValid) =>
         pc = "idle" /\ reply # None /\ reply.status = 400
    /\ pc # "idle" => budget >= 1 /\ budget <= 2147483647

\* C9: no opportunity returned by getFlipOpportunities has volatility > 30; with
\* includeHighRisk false none has volatility > 25; none has volatility above the
\* caller's maxVolatility (a maxVolatility above 30 does not loosen the ceiling).
C9_VolatilityCeilings ==
  pc # "idle" =>
    \A i \in 1..Len(opportunities) :
      LET v == opportunities[i].volatility
          f == WithDefaults(filters)
      IN  /\ v.sqn * 10000 <= 900 * v.sqd
          /\ ~f.includeHighRisk => v.sqn * 10000 <= 625 * v.sqd
          /\ v.sqn * 10000 <= f.maxVolatility * f.maxVolatility * v.sqd

C9_Witness ==
  /\ pc = "done"
  /\ Len(db) >= 7
  /\ WithDefaults(filters).includeHighRisk
  /\ WithDefaults(filters).maxVolatility = 40
  /\ \E i \in 1..Len(ReturnedList) :
       ReturnedList[i].volatility.sqn * 10000 > 625 * ReturnedList[i].volatility.sqd

\* the candidates that pass the post-filter, in evaluation order
C11_Survivors ==
  filterProfitableOpportunities(candidates, 1000, 5, WithDefaults(filters).minVolume,
                                WithDefaults(filters).maxVolatility)

C13_NoUnprofitableCandidate ==
  pc # "idle" =>
    \A list \in {candidates, opportunities} :
      \A i \in 1..Len(list) :
        /\ list[i].margin > 0
        /\ list[i].currentHigh > list[i].currentLow
        /\ Greater(list[i].avgPrice, 0)

\* a call that returned opportunities from a database holding a liquid item
\* without margin and a liquid item with a non-positive average price
C13_Witness ==
  /\ pc = "done"
  /\ opportunities # <<>>
  /\ \E i \in 1..Len(db) :
       /\ db[i].prices # <<>> /\ ~MissingLatestPrice(db[i].prices[1])
       /\ db[i].prices[1].high = db[i].prices[1].low
       /\ hassufficientVolume(db[i].volume, db[i].prices[1].high)
  /\ \E i \in 1..Len(db) :
       /\ db[i].prices # <<>> /\ ~MissingLatestPrice(db[i].prices[1])
       /\ db[i].prices[1].high > db[i].prices[1].low
       /\ db[i].prices[1].high + db[i].prices[1].low <= 0
       /\ hassufficientVolume(db[i].volume, db[i].prices[1].high)

\* the latest price sample of a database row, for rows that have price rows
C14_Latest(i) == db[i].prices[1]

\* the rows of the database that reach the evaluator's first gate
C14_Evaluated == {i \in 1..Len(db) : db[i].prices # <<>>}

\* the sample has the price: the column is neither NULL nor 0
C14_Carries(price) == price # Null /\ price # 0

\* C14 (as claimed): the evaluator's first gate rejects an item exactly when its
\* latest price sample lacks both the high and the low price; an item whose
\* latest sample carries at least one of the two prices is not rejected by it.
C14_RejectsOnlyWhenBothMissing ==
  pc # "idle" =>
    \A i \in C14_Evaluated :
      MissingLatestPrice(C14_Latest(i)) <=>
        (~C14_Carries(C14_Latest(i).high) /\ ~C14_Carries(C14_Latest(i).low))

\* C14 (amended): the evaluator's first gate rejects an item exactly when its
\* latest price sample lacks the high price or the low price; such an item is
\* never among the evaluated candidates, and an item whose latest sample
\* carries both prices is not rejected by that gate.
C14_RejectsWhenEitherMissing ==
  pc # "idle" =>
    \A i \in C14_Evaluated :
      /\ MissingLatestPrice(C14_Latest(i)) <=>
           (~C14_Carries(C14_Latest(i).high) \/ ~C14_Carries(C14_Latest(i).low))
      /\ (~C14_Carries(C14_Latest(i).high) \/ ~C14_Carries(C14_Latest(i).low)) =>
           \A j \in 1..Len(candidates) : candidates[j].id # db[i].id

\* a call evaluated a database with a sample lacking only the high price, one
\* lacking only the low price and one lacking both
C14_Witness ==
  /\ pc = "done"
  /\ candidates # <<>>
  /\ \E i \in C14_Evaluated :
       ~C14_Carries(C14_Latest(i).high) /\ C14_Carries(C14_Latest(i).low)
  /\ \E i \in C14_Evaluated :
       C14_Carries(C14_Latest(i).high) /\ ~C14_Carries(C14_Latest(i).low)
  /\ \E i \in C14_Evaluated :
       ~C14_Carries(C14_Latest(i).high) /\ ~C14_Carries(C14_Latest(i).low)

\* C15: detectPriceAnomalies is fail-open: with fewer than 3 entries in
\* recentHighs or in recentLows it returns isStable = true, hasSpike = false,
\* hasCrash = false whatever the current prices; for every input
\* isStable = !hasSpike && !hasCrash; and the baselines are the averages of the
\* lists without their index-0 element (spike: currentHigh > 1.5 * average,
\* crash: currentLow < 0.5 * average).
C15_AnomaliesFailOpen ==
  (call.fn = "detectPriceAnomalies" /\ call.returned) =>
    LET a == call.args
        r == call.result
        highs == a.recentHighs
        lows == a.recentLows
        restHigh == SumSeq(SubSeq(highs, 2, Len(highs)))
        restLow == SumSeq(SubSeq(lows, 2, Len(lows)))
    IN  /\ (Len(highs) < 3 \/ Len(lows) < 3) =>
             r.isStable /\ ~r.hasSpike /\ ~r.hasCrash
        /\ r.isStable <=> (~r.hasSpike /\ ~r.hasCrash)
        /\ (Len(highs) >= 3 /\ Len(lows) >= 3) =>
             /\ r.hasSpike <=> (a.currentHigh * 2 * (Len(highs) - 1) > 3 * restHigh)
             /\ r.hasCrash <=> (a.currentLow * 2 * (Len(lows) - 1) < restLow)

\* a spike found against a baseline that leaves the index-0 element out: with
\* the index-0 element in the average the same price would not be a spike
C15_Witness ==
  /\ call.fn = "detectPriceAnomalies" /\ call.returned
  /\ call.args.recentHighs = <<100, 60, 60>>
  /\ call.args.currentHigh = 100
  /\ Len(call.args.recentLows) = 3
  /\ call.result.hasSpike /\ ~call.result.isStable

\* C16 (as claimed): with default filters (includeHighRisk = false) no
\* opportunity returned by getFlipOpportunities carries the risk label
\* 'Extreme', and the label 'Extreme' is assigned only to volatility above 25%.
C16_NoExtremeByDefault ==
  pc # "idle" =>
    \A i \in 1..Len(opportunities) :
      LET o == opportunities[i]
      IN  /\ ~WithDefaults(filters).includeHighRisk => o.riskLevel # "Extreme"
          /\ o.riskLevel = "Extreme" => o.volatility.sqn * 10000 > 625 * o.volatility.sqd

\* the quantity the claim gives for a visited candidate; floor(volume * 0.2)
\* and floor(volume * 0.1) are the integer quotients of 2 * volume and of
\* volume by 10
C20_Quantity(o, remaining, totalBudget) ==
  LET affordable == remaining \div o.currentLow
      fifth == (2 * o.volume) \div 10
      tenth == o.volume \div 10
  IN  IF o.buyLimit = 0
      THEN Min(affordable, IF 2 * remaining > totalBudget THEN fifth ELSE tenth)
      ELSE Min(o.quantity, affordable)

\* C20: in the portfolio builder the quantity taken for a visited candidate is,
\* for an item with no position limit (buyLimit = 0),
\* min(floor(remainingBudget / currentLow), floor(volume * v)) with v = 0.2 when
\* remainingBudget > 0.5 * budget (strictly) and v = 0.1 otherwise, and for a
\* finite position limit min(candidate.quantity, floor(remainingBudget / currentLow));
\* a candidate whose quantity comes out 0 is not selected.
C20_QuantityTaken ==
  [][(pc = "loop" /\ idx' = idx + 1) =>
       LET o == opportunities[idx]
           q == C20_Quantity(o, remainingBudget, budget)
       IN  IF q > 0
           THEN /\ Len(selectedOpportunities') = Len(selectedOpportunities) + 1
                /\ SubSeq(selectedOpportunities', 1, Len(selectedOpportunities))
                     = selectedOpportunities
                /\ selectedOpportunities'[Len(selectedOpportunities')].id = o.id
                /\ selectedOpportunities'[Len(selectedOpportunities')].quantity = q
                /\ remainingBudget' = remainingBudget - q * o.currentLow
           ELSE /\ selectedOpportunities' = selectedOpportunities
                /\ remainingBudget' = remainingBudget]_vars

\* an item without position limit was visited with at most half of the budget
\* left and taken at a tenth of its volume, less than the rest could pay for
C20_Witness ==
  /\ pc # "idle"
  /\ \E k \in 1..Len(selectedOpportunities) :
       LET o == selectedOpportunities[k]
           left == budget - SumField(SubSeq(selectedOpportunities, 1, k - 1), "totalCost")
       IN  /\ o.buyLimit = 0
           /\ 2 * left <= budget
           /\ o.quantity = o.volume \div 10
           /\ o.quantity * o.currentLow < left - o.currentLow

\* every stored price row refers to an item row and carries a price
C17_StoredRowsValid ==
  \A r \in priceRows : r.itemId \in itemRows /\ (r.high # Null \/ r.low # Null)

\* what an iteration of the syncPrices loop of some handler may do
C17_IterationPolicy ==
  \A p \in Handlers :
    (handler[p].pc = "priceLoop" /\ handler'[p].pos = handler[p].pos + 1) =>
      LET e == handler[p].entries[handler[p].pos]
          hasPrice == (e.high # Null /\ e.high # 0) \/ (e.low # Null /\ e.low # 0)
      IN  /\ \A r \in priceRows' \ priceRows : r.itemId = e.id /\ r.itemId \in itemRows'
          /\ ~hasPrice => priceRows' = priceRows /\ itemRows' = itemRows
          /\ (e.id \notin itemRows /\ priceRows' # priceRows) =>
               e.id \in handler'[p].mappingById
          /\ (e.id \notin itemRows /\ e.id \notin handler'[p].mappingById) =>
               priceRows' = priceRows /\ e.id \notin itemRows'
          /\ handler[p].mappingRefetched =>
               /\ handler'[p].mappingRefetched
               /\ handler'[p].mappingById = handler[p].mappingById
               /\ itemRows' \subseteq itemRows \cup {e.id}
          /\ (hasPrice /\ e.id \in itemRows) => PriceRow(e.id, e) \in priceRows'

\* C17: during syncPrices a fetched price for an item absent from the database
\* is stored only after the item row has been created from the item mapping,
\* the mapping being re-fetched through an item sync at most once per run; an
\* item still unknown after that has its price skipped.  In every reachable
\* state each stored price row refers to an existing item row, and entries with
\* neither high nor low price are never stored.
C17_PricesOnlyForKnownItems ==
  []C17_StoredRowsValid /\ [][C17_IterationPolicy]_vars

\* a run that met the price of an item published after the run had fetched the
\* mapping: it re-fetched the mapping, created the item row and stored the
\* price, and then skipped the price of an item the mapping never had
C17_Witness ==
  \E p \in Handlers :
    /\ handler[p].pc = "priceLoop"
    /\ handler[p].pos > 3
    /\ handler[p].entries[3].id = 3
    /\ handler[p].mappingRefetched
    /\ 2 \in itemRows /\ 3 \notin itemRows
    /\ PriceRow(2, PriceEntry(2, 220, Null)) \in priceRows
    /\ \A r \in priceRows : r.itemId # 3

\* C18 (as claimed): syncHistoricalPrices bootstraps history once: across any
\* sequence of runs, also after a run that failed partway or when some items
\* already have history, history is inserted only for items that have no
\* history rows yet, so no item's history is inserted twice.
C18_HistoryInsertedOnce ==
  [][\A id \in AllIds :
       historyRows'[id] # historyRows[id] =>
         historyRows[id] = 0 /\ historyRows'[id] = 1]_vars

\* the handlers that are executing syncPrices
C19_SyncingPrices == {p \in Handlers : handler[p].pc = "priceLoop"}

\* C19 (as claimed): at no time are two executions of syncPrices in progress,
\* whatever the interleaving of the 5-minute cron ticks, the initial sync and
\* manual POST /api/sync requests; isRunning is set exactly while the
\* scheduled sync runs.
C19_NoOverlappingPriceSync ==
  /\ Cardinality(C19_SyncingPrices) <= 1
  /\ isRunning <=> handler["cron"].pc # "idle"

\* positions in the ranked list of the selections made so far, in selection order
C21_Positions ==
  [k \in 1..Len(selectedOpportunities) |->
     CHOOSE j \in 1..Len(opportunities) : opportunities[j].id = selectedOpportunities[k].id]

\* selections are visited candidates, in ranked order, none taken twice
C21_RankedOrder ==
  pc \in {"loop", "done"} =>
    /\ \A k \in 1..Len(selectedOpportunities) :
         /\ \E j \in 1..Len(opportunities) :
              opportunities[j].id = selectedOpportunities[k].id
         /\ C21_Positions[k] < idx
    /\ \A k \in 1..(Len(selectedOpportunities) - 1) :
         C21_Positions[k] < C21_Positions[k + 1]

\* one step of the pass: a candidate is visited only while budget and slots
\* remain, a quantity of 0 skips it and the pass goes on, and once the budget
\* or the slots are used up the pass ends without another visit
C21_PassStep ==
  pc = "loop" =>
    LET stop == remainingBudget <= 0 \/ Len(selectedOpportunities) >= 8
    IN  /\ idx' # idx =>
             /\ ~stop /\ idx' = idx + 1 /\ pc' = "loop"
             /\ \/ selectedOpportunities' = selectedOpportunities
                \/ /\ Len(selectedOpportunities') = Len(selectedOpportunities) + 1
                   /\ selectedOpportunities'[Len(selectedOpportunities')].id
                        = opportunities[idx].id
             /\ C20_Quantity(opportunities[idx], remainingBudget, budget) = 0 =>
                  selectedOpportunities' = selectedOpportunities
        /\ stop => /\ idx' = idx
                   /\ selectedOpportunities' = selectedOpportunities
                   /\ pc' \in {"loop", "done"}
        /\ pc' = "done" =>
             /\ stop \/ idx > Len(opportunities)
             /\ selectedOpportunities' = selectedOpportunities

\* C21: the portfolio builder makes a single pass in ranked order: a candidate
\* whose quantity comes out 0 is skipped without ending the pass; the pass
\* stops at the first candidate reached with remainingBudget <= 0 or with 8
\* selections, and nothing is selected after that; selections appear in ranked
\* order and no candidate is selected twice.
C21_SinglePass ==
  []C21_RankedOrder /\ [][C21_PassStep]_vars

\* a candidate that the remaining budget could not pay for was skipped and a
\* later, cheaper candidate was selected
C21_Witness ==
  /\ pc \in {"loop", "done"}
  /\ \E k \in 1..Len(selectedOpportunities) :
       \E j \in 1..(C21_Positions[k] - 1) :
         LET left == budget - SumField(SubSeq(selectedOpportunities, 1, k - 1), "totalCost")
         IN  /\ \A m \in 1..Len(selectedOpportunities) :
                  selectedOpportunities[m].id # opportunities[j].id
             /\ left > 0
             /\ left < opportunities[j].currentLow
             /\ \A m \in 1..(k - 1) : C21_Positions[m] < j

\* the GE tax the claim charges per unit sold at the given price
C22_Tax(sellPrice) == Max(1, Min((2 * sellPrice) \div 100, 5000000))

\* C22: after every step of the portfolio pass each selection has
\* quantity >= 1, totalCost = quantity * currentLow > 0 and
\* profitAfterTax = (margin - tax(currentHigh)) * quantity for its adjusted
\* quantity, and remainingBudget = budget - sum of the selections' totalCost
\* >= 0; the returned totals are the sums of totalCost and of profitAfterTax,
\* and for budget > 0 budgetUtilization = totalCost / budget * 100 lies in
\* [0, 100].
C22_SelectionsAndTotals ==
  /\ (pc \in {"loop", "done"} /\ idx > 1) =>
       LET spent == SumSeq([k \in 1..Len(selectedOpportunities) |->
                              selectedOpportunities[k].totalCost])
       IN  /\ \A k \in 1..Len(selectedOpportunities) :
                LET o == selectedOpportunities[k]
                IN  /\ o.quantity >= 1
                    /\ o.totalCost = o.quantity * o.currentLow
                    /\ o.totalCost > 0
                    /\ o.margin = o.currentHigh - o.currentLow
                    /\ o.profitAfterTax = (o.margin - C22_Tax(o.currentHigh)) * o.quantity
           /\ remainingBudget = budget - spent
           /\ remainingBudget >= 0
  /\ result.kind = "portfolio" =>
       LET list == result.opportunities
           g == GCD(result.totalCost, result.totalBudget)
       IN  /\ result.totalCost = SumSeq([k \in 1..Len(list) |-> list[k].totalCost])
           /\ result.totalProfitAfterTax
                = SumSeq([k \in 1..Len(list) |-> list[k].profitAfterTax])
           /\ result.totalBudget > 0 =>
                LET u == result.budgetUtilization
                IN  /\ u.den > 0
                    /\ u.num * (result.totalBudget \div g)
                         = 100 * (result.totalCost \div g) * u.den
                    /\ u.num >= 0
                    /\ u.num <= 100 * u.den

\* a returned portfolio that used part of the budget and holds a selection
\* whose quantity, cost and profit were recomputed for a smaller quantity
C22_Witness ==
  /\ result.kind = "portfolio"
  /\ result.totalCost > 0
  /\ result.totalCost < result.totalBudget
  /\ \E k \in 1..Len(result.opportunities), j \in 1..Len(opportunities) :
       /\ result.opportunities[k].id = opportunities[j].id
       /\ result.opportunities[k].quantity < opportunities[j].quantity
       /\ result.opportunities[k].profitAfterTax < opportunities[j].profitAfterTax

\* a's value of the metric is greater than b's
C23_Above(a, b, field) ==
  IF field = "roi" THEN a.roi.num * b.roi.den > b.roi.num * a.roi.den
  ELSE a[field] > b[field]

\* rank of the i-th candidate for a metric, descending, candidates of equal
\* value in input order
C23_Rank(in, field, i) ==
  Cardinality({j \in 1..Len(in) : C23_Above(in[j], in[i], field)})
  + Cardinality({j \in 1..(i - 1) :
                   ~C23_Above(in[j], in[i], field) /\ ~C23_Above(in[i], in[j], field)})

C29_DominanceRespected ==
  (call.fn = "sortOpportunitiesByScore" /\ call.returned) =>
    LET in == call.args.opportunities
        out == call.result
        n == Len(in)
    IN  /\ Len(out) = n
        /\ \A i \in 1..n :
             \E j \in 1..n : \A k \in DOMAIN in[i] : out[j][k] = in[i][k]
        /\ \A i \in 1..n : \A j \in 1..n : out[i].id = out[j].id => i = j
        /\ \A a \in 1..n : \A b \in 1..n :
             (/\ out[a].profitAfterTax > out[b].profitAfterTax
              /\ out[a].volume > out[b].volume
              /\ C23_Above(out[a], out[b], "roi")) =>
               /\ a < b
               /\ out[a].compositeScore.num * out[b].compositeScore.den
                    > out[b].compositeScore.num * out[a].compositeScore.den

\* the dominating candidate came last in the input and first in the output
C29_Witness ==
  /\ call.fn = "sortOpportunitiesByScore" /\ call.returned
  /\ Len(call.result) = 3
  /\ call.result[1].id = 3
  /\ \A j \in 2..3 :
       /\ call.result[1].profitAfterTax > call.result[j].profitAfterTax
       /\ call.result[1].volume > call.result[j].volume
       /\ C23_Above(call.result[1], call.result[j], "roi")

\* the filters a route would hand to the service if it honoured the request's
\* includeSpikes and includeHighRisk
C24_RequestedFilters ==
  [minVolume |-> RouteFilters(request.minVolume, request.maxVolatility).minVolume,
   maxVolatility |-> RouteFilters(request.minVolume, request.maxVolatility).maxVolatility,
   includeSpikes |-> request.includeSpikes = "true",
   includeHighRisk |-> request.includeHighRisk = "true"]

\* the ranked list of the request's budget under the requested filters
C24_Requested ==
  LET b == IF request.route = "/api/portfolio" THEN PortfolioBudget(request.budget)
           ELSE OpportunitiesBudget(request.budget).num
  IN  RankOpportunities(EvaluateItems(db, b, C24_RequestedFilters), b,
                        C24_RequestedFilters)

\* C24 (as claimed): a request of /api/opportunities or /api/portfolio with
\* includeHighRisk=true and includeSpikes=true gets the items with volatility in
\* (25, 30] or a detected spike/crash that are otherwise valid: the
\* opportunities route answers with the first `limit` entries of the list
\* ranked under these flags, the portfolio route selects from that list; with
\* both flags false no returned opportunity has isStable = false.
C24_BetaModeHonoured ==
  (request # None /\ reply # None /\ reply.status = 200) =>
    /\ (request.route = "/api/opportunities"
        /\ request.includeSpikes = "true" /\ request.includeHighRisk = "true") =>
         LET requested == C24_Requested
             limit == IF Present(request.limit) THEN ParseNumber(request.limit).num
                      ELSE DEFAULT_LIMIT
         IN  \A i \in 1..Min(Len(requested), limit) :
               \E j \in 1..Len(reply.data) : reply.data[j].id = requested[i].id
    /\ (request.route = "/api/portfolio"
        /\ request.includeSpikes = "true" /\ request.includeHighRisk = "true") =>
         LET requested == C24_Requested
         IN  \A i \in 1..Len(requested) :
               \E j \in 1..Len(candidates) : candidates[j].id = requested[i].id
    /\ (request.includeSpikes = "false" /\ request.includeHighRisk = "false") =>
         \A i \in 1..Len(ReturnedList) : ReturnedList[i].isStable

\* the hook's visible state
C25_State(c) == <<c.data, c.error, c.loading>>

\* a step in which the request of an effect other than the latest one of a
\* mounted component settles leaves data, error and loading as they were
C25_SupersededIsSilent ==
  \A k \in 1..Len(component.effects) :
    (/\ Len(component'.effects) = Len(component.effects)
     /\ component'.mounted = component.mounted
     /\ ~component.effects[k].settled /\ component'.effects[k].settled
     /\ (k < Len(component.effects) \/ ~component.mounted)) =>
      C25_State(component') = C25_State(component)

\* once the latest request of a mounted component has settled, loading is false
C25_LoadingCleared ==
  (component.mounted /\ component.effects # <<>>
   /\ component.effects[Len(component.effects)].settled) => ~component.loading

\* C25: in useApi, when the url or the dependencies change (or the component
\* unmounts) while a request is in flight, the response or error of the
\* superseded request never updates data, error or loading, in whatever order
\* the responses arrive; only the most recently started request writes state,
\* and once it settles loading is false.
C25_OnlyLatestRequestWrites ==
  []C25_LoadingCleared /\ [][C25_SupersededIsSilent]_vars

\* the second request has settled with its data and the first, superseded
\* while in flight, has settled too
C25_Witness ==
  /\ component.mounted
  /\ Len(component.effects) = 2
  /\ component.effects[1].cancelled /\ component.effects[1].settled
  /\ component.effects[2].settled
  /\ component.data = component.effects[2].url
  /\ ~component.loading

\* C26: every candidate getFlipOpportunities emits for a budget > 0, before
\* the post-filter and in the returned list, has quantity >= 1 and
\* 0 < totalCost <= budget.
C26_CandidateWithinBudget ==
  (pc # "idle" /\ budget > 0) =>
    /\ \A i \in 1..Len(candidates) :
         /\ candidates[i].quantity >= 1
         /\ 0 < candidates[i].totalCost
         /\ candidates[i].totalCost <= budget
    /\ \A i \in 1..Len(opportunities) :
         /\ opportunities[i].quantity >= 1
         /\ 0 < opportunities[i].totalCost
         /\ opportunities[i].totalCost <= budget

\* a returned candidate whose quantity the budget limited: one more unit at
\* the average price would exceed the budget
C26_Witness ==
  /\ pc # "idle" /\ budget > 0
  /\ \E i \in 1..Len(opportunities) :
       LET o == opportunities[i]
       IN  /\ o.buyLimit > o.quantity
           /\ (o.quantity + 1) * (o.currentHigh + o.currentLow) > 2 * budget
           /\ o.totalCost <= budget

\* the ranked candidate a selection was made from
C27_CandidateOf(selection) ==
  opportunities[CHOOSE i \in 1..Len(opportunities) : opportunities[i].id = selection.id]

\* C27: every selection of a portfolio has profitAfterTax > 0 and the per-unit
\* return of its candidate (100 * profitAfterTax >= 5 * totalCost), whether its
\* quantity was reduced or enlarged; every non-empty portfolio has
\* totalProfitAfterTax > 0 and totalROI >= 5%.
C27_SelectionsKeepReturn ==
  /\ \A i \in 1..Len(selectedOpportunities) :
       LET selection == selectedOpportunities[i]
           candidate == C27_CandidateOf(selection)
       IN  /\ selection.profitAfterTax > 0
           /\ 20 * selection.profitAfterTax >= selection.totalCost
           /\ selection.profitAfterTax * candidate.quantity
                = candidate.profitAfterTax * selection.quantity
           /\ selection.totalCost * candidate.quantity
                = candidate.totalCost * selection.quantity
           /\ ~Less(selection.roi, 5)
  /\ (result.kind = "portfolio" /\ result.itemCount > 0) =>
       /\ result.totalProfitAfterTax > 0
       /\ 20 * result.totalProfitAfterTax >= result.totalCost
       /\ ~Less(result.totalROI, 5)

\* a returned portfolio with one selection smaller and one larger than its
\* candidate
C27_Witness ==
  /\ result.kind = "portfolio"
  /\ \E i \in 1..Len(result.opportunities) :
       result.opportunities[i].quantity
         < C27_CandidateOf(result.opportunities[i]).quantity
  /\ \E i \in 1..Len(result.opportunities) :
       result.opportunities[i].quantity
         > C27_CandidateOf(result.opportunities[i]).quantity

\* C28: a selection of an item with a finite buy limit has a quantity <= the
\* candidate's evaluated quantity and <= buyLimit; a selection of an item with
\* no buy limit has a quantity <= floor(0.2 * volume), which may exceed the
\* 10%-of-volume cap that sized the candidate.
C28_QuantityWithinLimits ==
  \A i \in 1..Len(selectedOpportunities) :
    LET selection == selectedOpportunities[i]
        candidate == C27_CandidateOf(selection)
    IN  IF selection.buyLimit # 0
        THEN /\ selection.quantity <= candidate.quantity
             /\ selection.quantity <= selection.buyLimit
        ELSE selection.quantity <= (2 * selection.volume) \div 10

\* an unlimited item selected above 10% of its volume next to an item selected
\* at its buy limit
C28_Witness ==
  /\ \E i \in 1..Len(selectedOpportunities) :
       /\ selectedOpportunities[i].buyLimit = 0
       /\ selectedOpportunities[i].quantity > selectedOpportunities[i].volume \div 10
  /\ \E i \in 1..Len(selectedOpportunities) :
       /\ selectedOpportunities[i].buyLimit # 0
       /\ selectedOpportunities[i].quantity = selectedOpportunities[i].buyLimit

\* ids of the items the volume endpoint reports a positive total for
C30_Reported == {db[i].id : i \in {j \in 1..Len(db) : db[j].volume > 0}}

\* C30: when fetching the 24h volumes fails, fetchVolumeData returns an empty
\* map, every item counts as volume 0 and fails the liquidity gate:
\* getFlipOpportunities returns an empty list and getPortfolioSuggestion an
\* empty portfolio, not an error; and an item absent from the volume map is
\* never emitted.
C30_NoVolumeNoOpportunity ==
  /\ (volumeApi = "down" /\ pc # "idle") =>
       /\ candidates = <<>> /\ opportunities = <<>> /\ selectedOpportunities = <<>>
       /\ pc = "done" =>
            /\ result.kind \in {"portfolio", "opportunities"}
            /\ ReturnedList = <<>>
            /\ result.kind = "portfolio" => result.itemCount = 0 /\ result.totalCost = 0
            /\ request # None => reply.status = 200 /\ reply.success
  /\ \A i \in 1..Len(candidates) : candidates[i].id \in C30_Reported
  /\ \A i \in 1..Len(ReturnedList) : ReturnedList[i].id \in C30_Reported

\* the volume fetch failed for a database with items that are emitted when
\* it succeeds, and the call returned its empty answer
C30_Witness ==
  /\ volumeApi = "down" /\ pc = "done"
  /\ Len(db) = MaxDbItems
  /\ ReturnedList = <<>>
  /\ result.kind = "portfolio"

====
